---- MODULE Spec2Model ----
(***************************************************************************)
(* Verification model of open-xiaoai (packages/client-v2, client-rust and  *)
(* examples/discovery-rust): jitter buffer, RPC manager, server session,   *)
(* client pipelines, server handshake, UDP discovery, the control loop of  *)
(* the earlier server core, the audio bus and incoming RPC requests.       *)
(*                                                                         *)
(* Each component has its own variables and its own specification; the     *)
(* variables of the other components stay at their initial value there.    *)
(***************************************************************************)
EXTENDS Integers, Sequences, FiniteSets, TLC

VARIABLES
    \* ---- JitterBuffer (net/jitter_buffer.rs) ----
    buffer,                 \* BTreeMap<u128, AudioPacket>: timestamp -> packet
    stats,                  \* JitterStats
    expected_seq,
    first_packet_received,
    delay_samples,          \* VecDeque<u128>
    adapt_counter,
    last_played_timestamp,
    target_buffer_size,     \* config.target_buffer_size (adapted)
    popped,                 \* history: timestamps returned by pop / pop_next, in order
    pushes,                 \* history: number of push calls made
    last_push,              \* history: the last push call and what it did
    seq_log,                \* history: the sequence numbers of a numbered stream, as pushed
    adapt_mode,             \* history: how the packets of the current adapt interval arrive
    \* ---- RpcManager and the server session that owns it (net/rpc.rs, app/server) ----
    next_id,                \* AtomicU32
    pending,                \* DashMap<u32, oneshot::Sender>: ids whose sender is in the table
    calls,                  \* the RpcManager::call futures, one per caller
    sess_cancelled,         \* Session.cancel is cancelled
    loop_pc,                \* Server::session_loop: "running" | "exited"
    \* ---- client session and its audio pipelines (app/client) ----
    client_cancelled,       \* Client.cancel is cancelled
    csess_cancelled,        \* client Session.cancel (child of Client.cancel) is cancelled
    run_pc,                 \* Client::run: "connected" | "cleaned" | "stopped"
    msg_loop,               \* Client::message_loop: "running" | "exited"
    recorder,               \* ActivePipelines.recorder: a pipeline, or 0 for None
    player,                 \* ActivePipelines.player: a pipeline, or 0 for None
    pipes,                  \* the pipelines spawned so far
    \* ---- server connections (app/server/mod.rs, session.rs, audio_bus.rs) ----
    srv_cancelled,          \* Server.cancel is cancelled
    accept_loop,            \* Server::run accept loop: "running" | "stopped"
    conns,                  \* the handle_connection tasks, one per accepted connection
    sessions,               \* SessionManager.sessions: TCP addresses with a session
    udp_to_tcp,             \* SessionManager.udp_to_tcp: audio address -> TCP address or 0
    subscribers,            \* AudioBus.subscribers: registered audio addresses
    \* ---- UDP discovery (client-rust discovery/udp.rs, discovery-rust) ----
    dsrv,                   \* DiscoveryService: constructed, secret, ws_port, running
    dsrv_tasks,             \* the receive tasks spawned by DiscoveryService::start
    dsrv_last,              \* history: the datagram handled last and what became of it
    to_server,              \* datagrams of the client on their way to the server
    to_client,              \* datagrams of the server on their way to the client
    dcli,                   \* UdpDiscoveryService::discover: position, packet, result
    \* ---- earlier server core: one control connection (app/server/core.rs) ----
    core_ctl,               \* Session.control, a tokio Mutex: who holds it
    core_loop,              \* handle_connection: position of the control loop
    core_inbox,             \* frames that arrived on the connection and are unread
    core_next_id,           \* RpcManager.next_id
    core_pending,           \* RpcManager.pending: ids with a sender in the table
    core_calls,             \* the call_shell futures, one per caller
    \* ---- audio bus tasks (app/server/audio_bus.rs) ----
    bus_channel,            \* broadcast channel: frames published and not yet taken
    bus_cur,                \* run_broadcaster: the frame being broadcast, or NoFrame
    bus_visited,            \* AudioBus::broadcast: entries of subscribers.iter() seen so far
    bus_delivered,          \* history: source and destination of the last socket.send
    bus_received,           \* history: number of datagrams read by run_receiver
    \* ---- incoming RPC requests (net/rpc.rs handle_rpc_request, utils/shell.rs) ----
    reqs,                   \* the handle_rpc_request invocations and their tasks
    \* ---- control connection framing (net/network.rs) ----
    net_pc,                 \* ControlConnection::recv_packet: "idle" | "body"
    net_len,                \* the length prefix read last
    net_body_read,          \* whether read_exact ran for the frame read last
    net_result,             \* what the last recv_packet returned
    net_count,              \* history: number of recv_packet calls
    net_sent,               \* history: the packets passed to send_packet, in order
    net_wire,               \* the frames written to the stream: length prefix and body
    \* ---- client-rust main loop in discovery mode (bin/client.rs) ----
    app_pc,                 \* AppClient::run: "discover" | "connect" | "session" | "backoff"
    app_retry_count,        \* retry_count
    app_after,              \* history: what the loop did just before this discover()
    app_rounds,             \* history: number of discover() calls started
    \* ---- client-v2 run loop: discovery, connect, handshake (app/client) ----
    cr_pc,                  \* Client::run: "discover" | "connect" | "handshake" |
                            \*   "session" | "returned" | "sleep" | "stopped"
    cr_cancel,              \* Client::cancel is cancelled
    cr_session,             \* Client::session is Some
    cr_heartbeat,           \* the heartbeat task of the stored session runs
    cr_msg_loop,            \* message_loop runs
    cr_reply,               \* what conn.recv() yielded in the last handshake
    cr_rounds,              \* history: number of discover_and_connect() calls
    \* ---- packets of the client pipelines (app/client/pipeline.rs) ----
    rs_loop,                \* RecordPipeline::run main loop: "select" | "done"
    rs_frames,              \* history: PCM frames taken from pcm_rx
    rs_sent,                \* history: the AudioPackets handed to socket.send
    pb_chan,                \* PlaybackPipeline: the mpsc channel (seqs of packets)
    pb_jitter,              \* jitter_buffer: VecDeque<AudioPacket>
    pb_start_time,          \* start_time (0 = not set)
    pb_now,                 \* now_us()
    pb_stop,                \* stop_flag
    pb_arrived,             \* history: seqs that socket.recv has yielded
    pb_played,              \* history: seqs decoded and written to the player
    \* ---- AudioBus registry, call by call (app/server/audio_bus.rs) ----
    ab_subscribers,         \* AudioBus.subscribers: address -> subscriber id, 0 = absent
    ab_addr_to_id,          \* AudioBus.addr_to_id: address -> subscriber id, 0 = absent
    ab_next_id,             \* AudioBus.next_id
    ab_calls,               \* the register / unregister call each task is in
    ab_last,                \* history: the call that returned last
    ab_count,               \* history: number of calls made
    \* ---- event bus and one subscription (net/event.rs) ----
    ev_tail,                \* broadcast channel: number of events sent so far
    ev_closed,              \* the bus (the only Sender) was dropped
    ev_next,                \* the Receiver's position: events 1..ev_next are behind it
    ev_pc,                  \* run_event_loop: "recv" | "handle" | "ended"
    ev_lagged,              \* history: Lagged signals the subscription went through
    ev_handled,             \* history: the events passed to handler.handle, in order
    \* ---- PlaybackPipeline::run with a slow player (app/client/pipeline.rs) ----
    po_queue,               \* packets in the mpsc channel between receive task and loop
    po_rx,                  \* receive task: "recv" (socket.recv) | "send" (pcm_tx.send)
    po_loop,                \* playback loop: "iter" | "write" (inside player.write)
    \* ---- server recordings of one session (app/server/mod.rs, stream.rs, audio/wav.rs) ----
    wr_tasks,               \* the RecorderStream tasks: pc, token, WavWriter, history
    wr_active,              \* ActiveStreams.recorder: a task, or 0 for None
    wr_session_cancel,      \* Session.cancel is cancelled
    wr_bus_closed,          \* the audio bus's Sender was dropped
    wr_spawned,             \* number of RecorderStream tasks spawned
    wav_creator,            \* the file: the task whose File::create made it last, or 0
    wav_header,             \* the file: its data-size field (0 is the placeholder)
    \* ---- Client::execute against Client::run and cleanup (app/client/mod.rs) ----
    ex_run,                 \* Client::run: "session" | "cleanup" | "sleep" | "discover"
    ex_session,             \* Client.session holds Some(session)
    ex_conn,                \* the TCP connection: "up" | "lost"
    ex_calls,               \* the Client::execute calls: pc, the one-shot channel, result
    ex_rounds               \* sessions established so far

jbVars == <<buffer, stats, expected_seq, first_packet_received, delay_samples,
            adapt_counter, last_played_timestamp, target_buffer_size, popped, pushes,
            last_push, seq_log, adapt_mode>>

rpcVars == <<next_id, pending, calls, sess_cancelled, loop_pc>>

cliVars == <<client_cancelled, csess_cancelled, run_pc, msg_loop, recorder, player, pipes>>

srvVars == <<srv_cancelled, accept_loop, conns, sessions, udp_to_tcp, subscribers>>

discVars == <<dsrv, dsrv_tasks, dsrv_last, to_server, to_client, dcli>>

coreVars == <<core_ctl, core_loop, core_inbox, core_next_id, core_pending, core_calls>>

busVars == <<bus_channel, bus_cur, bus_visited, bus_delivered, bus_received>>

reqVars == <<reqs>>

netVars == <<net_pc, net_len, net_body_read, net_result, net_count, net_sent, net_wire>>

appVars == <<app_pc, app_retry_count, app_after, app_rounds>>

runVars == <<cr_pc, cr_cancel, cr_session, cr_heartbeat, cr_msg_loop, cr_reply,
             cr_rounds>>

pktVars == <<rs_loop, rs_frames, rs_sent, pb_chan, pb_jitter, pb_start_time, pb_now,
             pb_stop, pb_arrived, pb_played>>

regVars == <<ab_subscribers, ab_addr_to_id, ab_next_id, ab_calls, ab_last, ab_count>>

evVars == <<ev_tail, ev_closed, ev_next, ev_pc, ev_lagged, ev_handled>>
poVars == <<po_queue, po_rx, po_loop>>
exVars == <<ex_run, ex_session, ex_conn, ex_calls, ex_rounds>>
wrVars == <<wr_tasks, wr_active, wr_session_cancel, wr_bus_closed, wr_spawned,
            wav_creator, wav_header>>

vars == <<jbVars, rpcVars, cliVars, srvVars, discVars, coreVars, busVars, reqVars,
          netVars, appVars, runVars, pktVars, regVars, evVars, poVars, wrVars, exVars>>

\* the variables a component leaves alone
notJB   == <<rpcVars, cliVars, srvVars, discVars, coreVars, busVars, reqVars, netVars, appVars, runVars, pktVars, regVars, evVars, poVars, wrVars, exVars>>
notRpc  == <<jbVars, cliVars, srvVars, discVars, coreVars, busVars, reqVars, netVars, appVars, runVars, pktVars, regVars, evVars, poVars, wrVars, exVars>>
notCli  == <<jbVars, rpcVars, srvVars, discVars, coreVars, busVars, reqVars, netVars, appVars, runVars, pktVars, regVars, evVars, poVars, wrVars, exVars>>
notSrv  == <<jbVars, rpcVars, cliVars, discVars, coreVars, busVars, reqVars, netVars, appVars, runVars, pktVars, regVars, evVars, poVars, wrVars, exVars>>
notDisc == <<jbVars, rpcVars, cliVars, srvVars, coreVars, busVars, reqVars, netVars, appVars, runVars, pktVars, regVars, evVars, poVars, wrVars, exVars>>
notCore == <<jbVars, rpcVars, cliVars, srvVars, discVars, busVars, reqVars, netVars, appVars, runVars, pktVars, regVars, evVars, poVars, wrVars, exVars>>
notBus  == <<jbVars, rpcVars, cliVars, discVars, coreVars, reqVars, netVars, appVars, runVars, pktVars, regVars, evVars, poVars, wrVars, exVars>>
notReq  == <<jbVars, rpcVars, cliVars, srvVars, discVars, coreVars, busVars, netVars, appVars, runVars, pktVars, regVars, evVars, poVars, wrVars, exVars>>
notNet  == <<jbVars, rpcVars, cliVars, srvVars, discVars, coreVars, busVars, reqVars, appVars, runVars, pktVars, regVars, evVars, poVars, wrVars, exVars>>
notApp  == <<jbVars, rpcVars, cliVars, srvVars, discVars, coreVars, busVars, reqVars, netVars, runVars, pktVars, regVars, evVars, poVars, wrVars, exVars>>
notRun  == <<jbVars, rpcVars, cliVars, srvVars, discVars, coreVars, busVars, reqVars, netVars, appVars, pktVars, regVars, evVars, poVars, wrVars, exVars>>
notPkt  == <<jbVars, rpcVars, cliVars, srvVars, discVars, coreVars, busVars, reqVars, netVars, appVars, runVars, regVars, evVars, poVars, wrVars, exVars>>
notReg  == <<jbVars, rpcVars, cliVars, srvVars, discVars, coreVars, busVars, reqVars, netVars, appVars, runVars, pktVars, evVars, poVars, wrVars, exVars>>
notEv   == <<jbVars, rpcVars, cliVars, srvVars, discVars, coreVars, busVars, reqVars, netVars, appVars, runVars, pktVars, regVars, poVars, wrVars, exVars>>
notPo   == <<jbVars, rpcVars, cliVars, srvVars, discVars, coreVars, busVars, reqVars, netVars, appVars, runVars, pktVars, regVars, evVars, wrVars, exVars>>
notWr   == <<jbVars, rpcVars, cliVars, srvVars, discVars, coreVars, busVars, reqVars, netVars, appVars, runVars, pktVars, regVars, evVars, poVars, exVars>>
notEx   == <<jbVars, rpcVars, cliVars, srvVars, discVars, coreVars, busVars, reqVars, netVars, appVars, runVars, pktVars, regVars, evVars, poVars, wrVars>>

(***************************************************************************)
(* Helpers                                                                 *)
(***************************************************************************)
Min(a, b) == IF a <= b THEN a ELSE b
Max(a, b) == IF a >= b THEN a ELSE b

RECURSIVE SumSeq(_)
SumSeq(s) ==
    IF s = <<>> THEN 0
    ELSE IF Len(s) = 1 THEN s[1]
    ELSE LET h == Len(s) \div 2
         IN SumSeq(SubSeq(s, 1, h)) + SumSeq(SubSeq(s, h + 1, Len(s)))

(***************************************************************************)
(* RpcManager (net/rpc.rs) inside a server Session (app/server/session.rs) *)
(***************************************************************************)
\* Bounds of the RPC model.
MaxCalls == 2       \* number of RpcManager::call invocations in one run

Callers        == 1..MaxCalls
\* ids a peer may put in an RpcResponse: the allocated ones and an unknown one
ResponseIds    == 1..(MaxCalls + 1)
CommandResults == {"Shell", "Error"}
\* RpcBuilder.timeout: None, Some(ms)
Timeouts       == {[some |-> FALSE, ms |-> 0], [some |-> TRUE, ms |-> 10000]}
\* RpcBuilder::set_timeout(0)
ZeroTimeout    == [some |-> TRUE, ms |-> 0]

\* a call future that has not been created yet
NoCall ==
    [pc |-> "idle", id |-> 0, timeout |-> [some |-> FALSE, ms |-> 0],
     chan |-> "none", outcome |-> "none", send_failed |-> FALSE,
     delivered |-> <<>>]

\* RpcManager::new and Session::new
RpcInit ==
    /\ next_id = 1
    /\ pending = {}
    /\ calls = [c \in Callers |-> NoCall]
    /\ sess_cancelled = FALSE
    /\ loop_pc = "running"

\* the call futures that hold the receiver of id's one-shot channel
ReceiversOf(id) == {c \in Callers : calls[c].id = id /\ calls[c].pc \in {"sending", "waiting"}}

DropGuard_Leaks(id) == pending

\* DropGuard::drop and the drop of rx when the call future ends
DropGuard(id) == pending \ {id}

FetchAdd_Stuck(n) == n

\* next_id.fetch_add(1, Ordering::Relaxed): the value the counter holds afterwards
FetchAdd(n) == n + 1

\* RpcManager::call, lines 68-81: allocate the id, register the sender, install the guard
RpcCallStart(c, timeout) ==
    /\ calls[c].pc = "idle"
    /\ calls' = [calls EXCEPT ![c] = [NoCall EXCEPT !.pc = "sending", !.id = next_id,
                                                    !.timeout = timeout, !.chan = "empty"]]
    /\ pending' = pending \cup {next_id}
    /\ next_id' = FetchAdd(next_id)
    /\ UNCHANGED <<sess_cancelled, loop_pc>>
    /\ UNCHANGED notRpc

\* RpcManager::call, lines 84-93: send_fn returned Ok
RpcSendOk(c) ==
    /\ calls[c].pc = "sending"
    /\ calls' = [calls EXCEPT ![c].pc = "waiting"]
    /\ UNCHANGED <<next_id, pending, sess_cancelled, loop_pc>>
    /\ UNCHANGED notRpc

\* RpcManager::call, lines 84-93: send_fn returned Err
RpcSendFail(c) ==
    /\ calls[c].pc = "sending"
    /\ calls' = [calls EXCEPT ![c].pc = "done", ![c].outcome = "Internal",
                              ![c].send_failed = TRUE]
    /\ pending' = DropGuard(calls[c].id)
    /\ UNCHANGED <<next_id, sess_cancelled, loop_pc>>
    /\ UNCHANGED notRpc

\* mutation of AwaitOutcome: a closed channel is reported as an internal error
AwaitOutcome_Internal(chan) == IF chan = "closed" THEN "Internal" ELSE chan

\* what the await of rx yields once the channel is no longer empty (lines 96-103)
AwaitOutcome(chan) == IF chan = "closed" THEN "Cancelled" ELSE chan

\* RpcManager::call, lines 96-103: rx is ready (a value, or the sender was dropped)
RpcWake(c) ==
    /\ calls[c].pc = "waiting"
    /\ calls[c].chan # "empty"
    /\ calls' = [calls EXCEPT ![c].pc = "done", ![c].outcome = AwaitOutcome(calls[c].chan)]
    /\ pending' = DropGuard(calls[c].id)
    /\ UNCHANGED <<next_id, sess_cancelled, loop_pc>>
    /\ UNCHANGED notRpc

\* RpcManager::call, lines 97-100: the timer elapsed and rx was not ready
RpcTimeout(c) ==
    /\ calls[c].pc = "waiting"
    /\ calls[c].timeout.some
    /\ calls[c].chan = "empty"
    /\ calls' = [calls EXCEPT ![c].pc = "done", ![c].outcome = "Timeout"]
    /\ pending' = DropGuard(calls[c].id)
    /\ UNCHANGED <<next_id, sess_cancelled, loop_pc>>
    /\ UNCHANGED notRpc

\* the future returned by call is dropped by its owner before it completes
RpcDropFuture(c) ==
    /\ calls[c].pc \in {"sending", "waiting"}
    /\ calls' = [calls EXCEPT ![c].pc = "dropped"]
    /\ pending' = DropGuard(calls[c].id)
    /\ UNCHANGED <<next_id, sess_cancelled, loop_pc>>
    /\ UNCHANGED notRpc

\* mutation of Resolve: the result goes to every call that is waiting
Resolve_AnyCall(id, result) ==
    [c \in Callers |->
        IF calls[c].pc \in {"sending", "waiting"} /\ calls[c].chan = "empty"
        THEN [calls[c] EXCEPT !.chan = result, !.delivered = Append(@, result)]
        ELSE calls[c]]

\* RpcManager::resolve: the calls after tx.send(result) for id
Resolve(id, result) ==
    IF id \in pending
    THEN [c \in Callers |->
            IF c \in ReceiversOf(id) /\ calls[c].chan = "empty"
            THEN [calls[c] EXCEPT !.chan = result, !.delivered = Append(@, result)]
            ELSE calls[c]]
    ELSE calls

\* Server::handle_packet, RpcResponse arm, run by the session loop
RpcResponse(id, result) ==
    /\ loop_pc = "running"
    /\ calls' = Resolve(id, result)
    /\ pending' = pending \ {id}
    /\ UNCHANGED <<next_id, sess_cancelled, loop_pc>>
    /\ UNCHANGED notRpc

\* RpcManager::cancel: the sender is removed from the table and dropped
RpcCancel(id) ==
    /\ id \in pending
    /\ pending' = pending \ {id}
    /\ calls' = [c \in Callers |->
                    IF c \in ReceiversOf(id) /\ calls[c].chan = "empty"
                    THEN [calls[c] EXCEPT !.chan = "closed"]
                    ELSE calls[c]]
    /\ UNCHANGED <<next_id, sess_cancelled, loop_pc>>
    /\ UNCHANGED notRpc

\* Session::cleanup (cancel.cancel(); streams.stop_all()) or the server token firing:
\* the pending table is not touched
SessionCancel ==
    /\ ~sess_cancelled
    /\ sess_cancelled' = TRUE
    /\ UNCHANGED <<next_id, pending, calls, loop_pc>>
    /\ UNCHANGED notRpc

\* Server::session_loop: the cancelled branch of the select
SessionLoopExit ==
    /\ loop_pc = "running"
    /\ sess_cancelled
    /\ loop_pc' = "exited"
    /\ UNCHANGED <<next_id, pending, calls, sess_cancelled>>
    /\ UNCHANGED notRpc

\* Server::session_loop: receive error or 60 s timeout
SessionLoopFail ==
    /\ loop_pc = "running"
    /\ loop_pc' = "exited"
    /\ UNCHANGED <<next_id, pending, calls, sess_cancelled>>
    /\ UNCHANGED notRpc

RpcNext ==
    \/ \E c \in Callers, t \in Timeouts : RpcCallStart(c, t)
    \/ \E c \in Callers : RpcSendOk(c)
    \/ \E c \in Callers : RpcSendFail(c)
    \/ \E c \in Callers : RpcWake(c)
    \/ \E c \in Callers : RpcTimeout(c)
    \/ \E c \in Callers : RpcDropFuture(c)
    \/ \E id \in ResponseIds, r \in CommandResults : RpcResponse(id, r)
    \/ \E id \in ResponseIds : RpcCancel(id)
    \/ SessionCancel
    \/ SessionLoopExit
    \/ SessionLoopFail

\* the same manager when every call is issued with timeout_ms = 0: the timer has
\* elapsed when tokio::time::timeout is first polled, which polls rx before it
RpcZeroNext ==
    \/ \E c \in Callers : RpcCallStart(c, ZeroTimeout)
    \/ \E c \in Callers : RpcSendOk(c)
    \/ \E c \in Callers : RpcSendFail(c)
    \/ \E c \in Callers : RpcWake(c)
    \/ \E c \in Callers : RpcTimeout(c)
    \/ \E c \in Callers : RpcDropFuture(c)
    \/ \E id \in ResponseIds, r \in CommandResults : RpcResponse(id, r)
    \/ \E id \in ResponseIds : RpcCancel(id)
    \/ SessionCancel
    \/ SessionLoopExit
    \/ SessionLoopFail

\* the runtime polls woken futures, timers fire, and the loop observes its token
RpcFairness ==
    /\ \A c \in Callers : WF_vars(RpcWake(c))
    /\ \A c \in Callers : WF_vars(RpcTimeout(c))
    /\ WF_vars(SessionLoopExit)

RpcCompleted == {"Shell", "Error", "Timeout", "Cancelled", "Internal"}

(***************************************************************************)
(* JitterBuffer                                                            *)
(***************************************************************************)
\* Bounds of the jitter-buffer model.
MaxTs     == 3      \* packet timestamps are drawn from 0..MaxTs
MaxSeqIn  == 2      \* packet sequence numbers are drawn from 0..MaxSeqIn
MaxPushes == 3      \* number of push calls in one run

\* JitterConfig::default()
MIN_BUFFER_SIZE      == 2
MAX_BUFFER_SIZE      == 20
TARGET_BUFFER_SIZE   == 5
ADAPT_INTERVAL       == 50
MAX_TOLERABLE_DELAY  == 100000
DELAY_WINDOW         == 100
STREAM_FRAME_US      == 20000
LOSS_GAP_LIMIT       == 1000

\* A u32 is kept as <<high 16 bits, low 16 bits>>, so that wrapping arithmetic keeps
\* its 32-bit width.
HALF_WORD == 65536
U32Of(n)  == <<n \div HALF_WORD, n % HALF_WORD>>
U32_MAX   == <<HALF_WORD - 1, HALF_WORD - 1>>

Timestamps == 0..MaxTs
\* sequence numbers offered to push: 0..MaxSeqIn and u32::MAX
SeqsIn     == {U32Of(k) : k \in 0..MaxSeqIn} \cup {U32_MAX}
\* arrival times offered to push for a packet with timestamp ts: long before it,
\* exactly at the tolerable delay, and one microsecond past it
ArrivalTimes(ts) == {0, ts + MAX_TOLERABLE_DELAY, ts + MAX_TOLERABLE_DELAY + 1}

\* u32::wrapping_add(a, 1)
WrappingAdd1(a) ==
    IF a[2] = HALF_WORD - 1 THEN <<(a[1] + 1) % HALF_WORD, 0>> ELSE <<a[1], a[2] + 1>>

\* u32::wrapping_sub(a, b)
WrappingSub(a, b) ==
    LET borrow == IF a[2] < b[2] THEN 1 ELSE 0
    IN <<(a[1] - b[1] - borrow + 2 * HALF_WORD) % HALF_WORD,
         (a[2] - b[2] + HALF_WORD) % HALF_WORD>>

JitterStatsDefault ==
    [received |-> 0, lost |-> 0, played |-> 0, late |-> 0, duplicate |-> 0,
     buffer_size |-> 0, min_delay |-> 0, max_delay |-> 0, avg_delay |-> 0]

\* no push call yet.  lpt is last_played_timestamp at the call; duplicate and late
\* are the increments of the two counters; inserted tells whether the buffer changed
NoPush ==
    [ts |-> 0, arrival_time |-> 0, lpt |-> 0,
     duplicate |-> 0, late |-> 0, inserted |-> FALSE, called |-> FALSE]

JBInit ==
    /\ buffer = <<>>
    /\ stats = JitterStatsDefault
    /\ expected_seq = U32Of(0)
    /\ first_packet_received = FALSE
    /\ delay_samples = <<>>
    /\ adapt_counter = 0
    /\ last_played_timestamp = 0
    /\ target_buffer_size = TARGET_BUFFER_SIZE
    /\ popped = <<>>
    /\ pushes = 0
    /\ last_push = NoPush
    /\ seq_log = <<>>
    /\ adapt_mode = "steady"

\* update_delay_stats: the stats after recording one delay sample
UpdateDelayStats(st, delay) ==
    IF st.received = 0
    THEN [st EXCEPT !.min_delay = delay, !.max_delay = delay, !.avg_delay = delay]
    ELSE [st EXCEPT !.min_delay = Min(st.min_delay, delay),
                    !.max_delay = Max(st.max_delay, delay),
                    !.avg_delay = (st.avg_delay * 9 + delay) \div 10]

\* update_delay_stats: the sample window, at most DELAY_WINDOW long
PushDelaySample(samples, delay) ==
    LET s == Append(samples, delay)
    IN IF Len(s) > DELAY_WINDOW THEN Tail(s) ELSE s

\* adapt_buffer_size: the new target depth.  jitter = sqrt(variance) with
\* variance = sumsq / n, so jitter > 50_000 iff sumsq > 50_000^2 * n and
\* jitter < 10_000 iff sumsq < 10_000^2 * n.  The squares do not fit TLC's 32-bit
\* integers, so sumsq is kept in three limbs of base JitterUnit:
\* sumsq = hi * JitterUnit^2 + mid * JitterUnit + lo.
HIGH_JITTER == 50000
LOW_JITTER  == 10000
MIN_SAMPLES == 10
JitterUnit  == LOW_JITTER \div 10

\* (d - avg)^2 as <<hi, mid, lo>>, not normalised
SquareLimbs(d, avg) ==
    LET diff == IF d >= avg THEN d - avg ELSE avg - d
        q    == diff \div JitterUnit
        r    == diff % JitterUnit
    IN <<q * q, 2 * q * r, r * r>>

\* the sum of the squared differences, normalised: <<hi, rest>> with
\* sumsq = hi * JitterUnit^2 + rest and rest < JitterUnit^2
SumSquares(samples, avg) ==
    LET sq  == [i \in 1..Len(samples) |-> SquareLimbs(samples[i], avg)]
        hi  == SumSeq([i \in 1..Len(samples) |-> sq[i][1]])
        mid == SumSeq([i \in 1..Len(samples) |-> sq[i][2]])
        lo  == SumSeq([i \in 1..Len(samples) |-> sq[i][3]])
        m2  == mid + (lo \div JitterUnit)
    IN <<hi + (m2 \div JitterUnit),
         ((m2 % JitterUnit) * JitterUnit) + (lo % JitterUnit)>>

\* lines 298-327: the target before it is limited
AdaptTarget(samples, avg, target) ==
    IF Len(samples) < MIN_SAMPLES THEN target
    ELSE LET sumsq == SumSquares(samples, avg)
             n     == Len(samples)
             hiLim == (HIGH_JITTER \div JitterUnit) * (HIGH_JITTER \div JitterUnit) * n
             loLim == (LOW_JITTER \div JitterUnit) * (LOW_JITTER \div JitterUnit) * n
             high  == sumsq[1] > hiLim \/ (sumsq[1] = hiLim /\ sumsq[2] > 0)
             low   == sumsq[1] < loLim
         IN IF high THEN target + 2
            ELSE IF low THEN Max(target - 1, 0)
            ELSE target

\* mutation of AdaptBufferSize: the target is not limited to the range
AdaptBufferSize_Unclamped(samples, avg, target) == AdaptTarget(samples, avg, target)

\* lines 329-332: "限制在最小/最大范围内"; below MIN_SAMPLES the function returns early
AdaptBufferSize(samples, avg, target) ==
    IF Len(samples) < MIN_SAMPLES THEN target
    ELSE Min(Max(AdaptTarget(samples, avg, target), MIN_BUFFER_SIZE), MAX_BUFFER_SIZE)

\* mutation of SeqAccounting: gaps are not counted
SeqAccounting_NoLoss(seq) == <<WrappingAdd1(seq), stats.lost>>

\* the sequence bookkeeping of push (lines 140-152): <<expected_seq', lost'>>
SeqAccounting(seq) ==
    IF ~first_packet_received
    THEN <<WrappingAdd1(seq), stats.lost>>
    ELSE LET seq_diff == WrappingSub(seq, expected_seq)
         IN <<WrappingAdd1(seq),
              IF seq_diff[1] = 0 /\ seq_diff[2] > 0 /\ seq_diff[2] < LOSS_GAP_LIMIT
              THEN stats.lost + seq_diff[2] ELSE stats.lost>>

\* mutation of IsLate: no packet is taken to be old
IsLate_Never(ts) == FALSE

\* "检查是否迟到": the packet is older than the last played one
IsLate(ts) == last_played_timestamp > 0 /\ ts < last_played_timestamp

\* mutation of TooDelayed: a delay of exactly max_tolerable_delay is refused too
TooDelayed_AtLimit(ts, arrival_time) ==
    ts < arrival_time /\ arrival_time - ts >= MAX_TOLERABLE_DELAY

\* "超过最大容忍延迟"
TooDelayed(ts, arrival_time) ==
    ts < arrival_time /\ arrival_time - ts > MAX_TOLERABLE_DELAY

\* JitterBuffer::push(packet, arrival_time)
Push(seq, ts, arrival_time) ==
    /\ pushes' = pushes + 1
    /\ IF ts \in DOMAIN buffer
       THEN \* duplicate
            /\ stats' = [stats EXCEPT !.duplicate = @ + 1]
            /\ UNCHANGED <<buffer, expected_seq, first_packet_received, delay_samples,
                           adapt_counter, target_buffer_size>>
       ELSE LET acc == SeqAccounting(seq)
                st1 == [stats EXCEPT !.lost = acc[2]]
            IN /\ expected_seq' = acc[1]
               /\ first_packet_received' = TRUE
               /\ IF IsLate(ts) \/ TooDelayed(ts, arrival_time)
                  THEN /\ stats' = [st1 EXCEPT !.late = @ + 1]
                       /\ UNCHANGED <<buffer, delay_samples, adapt_counter,
                                      target_buffer_size>>
                  ELSE LET delay == IF ts >= arrival_time THEN ts - arrival_time ELSE 0
                           st2   == UpdateDelayStats(st1, delay)
                           smp   == PushDelaySample(delay_samples, delay)
                           buf   == [t \in (DOMAIN buffer) \cup {ts} |->
                                        IF t = ts THEN [seq |-> seq, timestamp |-> ts]
                                        ELSE buffer[t]]
                       IN /\ buffer' = buf
                          /\ delay_samples' = smp
                          /\ stats' = [st2 EXCEPT !.received = @ + 1,
                                                  !.buffer_size = Cardinality(DOMAIN buf)]
                          /\ IF adapt_counter + 1 >= ADAPT_INTERVAL
                             THEN /\ target_buffer_size' =
                                        AdaptBufferSize(smp, st2.avg_delay, target_buffer_size)
                                  /\ adapt_counter' = 0
                             ELSE /\ adapt_counter' = adapt_counter + 1
                                  /\ UNCHANGED target_buffer_size
    /\ last_push' = [ts |-> ts, arrival_time |-> arrival_time,
                     lpt |-> last_played_timestamp,
                     duplicate |-> stats'.duplicate - stats.duplicate,
                     late |-> stats'.late - stats.late,
                     inserted |-> buffer' # buffer, called |-> TRUE]
    /\ UNCHANGED <<last_played_timestamp, popped>>
    /\ UNCHANGED notJB

\* a push call with any packet and any of the arrival times
JBPush ==
    /\ pushes < MaxPushes
    /\ \E seq \in SeqsIn, ts \in Timestamps :
          \E arrival_time \in ArrivalTimes(ts) : Push(seq, ts, arrival_time)
    /\ UNCHANGED <<seq_log, adapt_mode>>

\* a push call with the packet the sequence bookkeeping expects next, with any
\* timestamp and any of the arrival times
JBPushTimed ==
    /\ pushes < MaxPushes
    /\ \E ts \in Timestamps :
          \E arrival_time \in ArrivalTimes(ts) : Push(expected_seq, ts, arrival_time)
    /\ UNCHANGED <<seq_log, adapt_mode>>

\* Bounds of the numbered stream.
MaxStreamSeq    == 5   \* the stream has the packets 0..MaxStreamSeq
MaxStreamPushes == 5   \* number of push calls in one run of the stream

\* packet n of the stream: seq n, timestamps one frame apart and above zero
StreamTs(n) == (n + 1) * STREAM_FRAME_US

\* a push call with a packet of the stream that was not pushed before, arriving
\* within the tolerable delay
JBPushStream ==
    /\ pushes < MaxStreamPushes
    /\ \E n \in 0..MaxStreamSeq :
          /\ \A i \in 1..Len(seq_log) : seq_log[i] # n
          /\ \E arrival_time \in {StreamTs(n), StreamTs(n) + MAX_TOLERABLE_DELAY} :
                Push(U32Of(n), StreamTs(n), arrival_time)
          /\ seq_log' = Append(seq_log, n)
    /\ UNCHANGED adapt_mode

\* Bounds of the paced stream.
MaxAdaptBlocks == 9        \* adapt intervals (of ADAPT_INTERVAL pushes) in one run
MaxDelayAhead  == 200000   \* how long before its timestamp an early packet arrives

AdaptModes == {"steady", "bursty"}

\* a push call of a paced stream: the buffer was emptied by the consumer, the
\* packets come in sequence with timestamps one frame apart, and during one
\* adapt interval they arrive either all on time or alternately on time and early
JBPushPaced ==
    /\ DOMAIN buffer = {}
    /\ pushes < MaxAdaptBlocks * ADAPT_INTERVAL
    /\ \E mode \in AdaptModes :
          /\ adapt_counter = 0 \/ mode = adapt_mode
          /\ adapt_mode' = mode
          /\ LET ts    == StreamTs(pushes + 10)
                 delay == IF mode = "bursty" /\ pushes % 2 = 1 THEN MaxDelayAhead ELSE 0
             IN Push(expected_seq, ts, ts - delay)
    /\ UNCHANGED seq_log

\* should_drain
ShouldDrain == DOMAIN buffer # {} /\ Cardinality(DOMAIN buffer) >= MIN_BUFFER_SIZE

\* the earliest buffered timestamp (buffer.iter().next())
Earliest == CHOOSE t \in DOMAIN buffer : \A u \in DOMAIN buffer : t <= u

\* mutation of TakeEarliest: the packet is removed and not counted as played
TakeEarliest_Uncounted ==
    LET timestamp == Earliest
        rest == [t \in (DOMAIN buffer) \ {timestamp} |-> buffer[t]]
    IN /\ buffer' = rest
       /\ last_played_timestamp' = timestamp
       /\ stats' = [stats EXCEPT !.buffer_size = Cardinality(DOMAIN rest)]
       /\ popped' = Append(popped, timestamp)

\* removing the earliest packet and recording it as played
TakeEarliest ==
    LET timestamp == Earliest
        rest == [t \in (DOMAIN buffer) \ {timestamp} |-> buffer[t]]
    IN /\ buffer' = rest
       /\ last_played_timestamp' = timestamp
       /\ stats' = [stats EXCEPT !.played = @ + 1,
                                 !.buffer_size = Cardinality(DOMAIN rest)]
       /\ popped' = Append(popped, timestamp)

\* pop returns Some(packet) at current_time
PopReady(current_time) ==
    /\ DOMAIN buffer # {}
    /\ ~(Cardinality(DOMAIN buffer) < target_buffer_size /\ ~ShouldDrain)
    /\ current_time >= Earliest

\* JitterBuffer::pop(current_time); a call returning None changes nothing
Pop(current_time) ==
    /\ PopReady(current_time)
    /\ TakeEarliest
    /\ UNCHANGED <<expected_seq, first_packet_received, delay_samples, adapt_counter,
                   target_buffer_size, pushes, last_push, seq_log, adapt_mode>>
    /\ UNCHANGED notJB

JBPop == \E current_time \in Timestamps : Pop(current_time)

\* JitterBuffer::pop_next
JBPopNext ==
    /\ DOMAIN buffer # {}
    /\ TakeEarliest
    /\ UNCHANGED <<expected_seq, first_packet_received, delay_samples, adapt_counter,
                   target_buffer_size, pushes, last_push, seq_log, adapt_mode>>
    /\ UNCHANGED notJB

JBNext == JBPush \/ JBPop \/ JBPopNext

\* push and pop only (no pop_next)
JBPushPopNext == JBPush \/ JBPop

\* packets in sequence with any timestamps and arrival times, pop and pop_next
JBTimingNext == JBPushTimed \/ JBPop \/ JBPopNext

\* the paced stream: every packet is taken with pop_next before the next arrives
JBPacedNext == JBPushPaced \/ JBPopNext

\* the numbered stream: its packets pushed in any order, pop_next in between
JBStreamNext == JBPushStream \/ JBPopNext

(***************************************************************************)
(* Client session, ActivePipelines, RecordPipeline and PlaybackPipeline    *)
(* (app/client/mod.rs, session.rs, pipeline.rs)                            *)
(***************************************************************************)
\* Bounds of the client model.
MaxPipes  == 2      \* pipelines spawned in one run
MaxFrames == 1      \* PCM frames captured / datagrams received per pipeline

\* mpsc::channel capacities
RECORD_CHANNEL   == 32
PLAYBACK_CHANNEL == 128

PipeIds == 1..MaxPipes

NoPipe ==
    [kind |-> "none", cancelled |-> FALSE, stop_flag |-> FALSE,
     loop |-> "none", aux |-> "none", queue |-> 0, jitter |-> 0, frames |-> 0,
     rx_closed |-> FALSE, sent |-> 0, played |-> 0, aux_exit |-> "none"]

\* Client::new, then a session established by handle_session
CliInit ==
    /\ client_cancelled = FALSE
    /\ csess_cancelled = FALSE
    /\ run_pc = "connected"
    /\ msg_loop = "running"
    /\ recorder = 0
    /\ player = 0
    /\ pipes = [p \in PipeIds |-> NoPipe]

\* a pipeline's token is a child of the session token
TokenCancelled(p) == pipes[p].cancelled \/ csess_cancelled

\* the pipeline's run is executing: its loop, its capture thread or its receive
\* task has started and has not terminated
Running(p) ==
    /\ pipes[p].kind # "none"
    /\ pipes[p].loop \notin {"start", "done"} \/ pipes[p].aux \notin {"unspawned", "done"}

Spawned == {p \in PipeIds : pipes[p].kind # "none"}

\* PipelineHandle::stop applied to handle h (0: no handle)
StopHandle(ps, h) ==
    IF h = 0 THEN ps ELSE [ps EXCEPT ![h].stop_flag = TRUE, ![h].cancelled = TRUE]

\* RecordPipeline::spawn / PlaybackPipeline::spawn: the new pipeline
NewPipe(kind) == [NoPipe EXCEPT !.kind = kind, !.loop = "start", !.aux = "unspawned"]

\* Client::handle_packet, StartRecording arm: spawn, then Session::start_recording
HandleStartRecording ==
    /\ msg_loop = "running"
    /\ \E p \in PipeIds :
        /\ p = Cardinality(Spawned) + 1
        /\ pipes' = StopHandle([pipes EXCEPT ![p] = NewPipe("record")], recorder)
        /\ recorder' = p
    /\ UNCHANGED <<client_cancelled, csess_cancelled, run_pc, msg_loop, player>>
    /\ UNCHANGED notCli

\* Client::handle_packet, StopRecording arm
HandleStopRecording ==
    /\ msg_loop = "running"
    /\ pipes' = StopHandle(pipes, recorder)
    /\ recorder' = 0
    /\ UNCHANGED <<client_cancelled, csess_cancelled, run_pc, msg_loop, player>>
    /\ UNCHANGED notCli

\* Client::handle_packet, StartPlayback arm: spawn, then Session::start_playback
HandleStartPlayback ==
    /\ msg_loop = "running"
    /\ \E p \in PipeIds :
        /\ p = Cardinality(Spawned) + 1
        /\ pipes' = StopHandle([pipes EXCEPT ![p] = NewPipe("playback")], player)
        /\ player' = p
    /\ UNCHANGED <<client_cancelled, csess_cancelled, run_pc, msg_loop, recorder>>
    /\ UNCHANGED notCli

\* Client::handle_packet, StopPlayback arm
HandleStopPlayback ==
    /\ msg_loop = "running"
    /\ pipes' = StopHandle(pipes, player)
    /\ player' = 0
    /\ UNCHANGED <<client_cancelled, csess_cancelled, run_pc, msg_loop, recorder>>
    /\ UNCHANGED notCli

\* Client::shutdown: the client token and with it every child token
ClientShutdown ==
    /\ ~client_cancelled
    /\ client_cancelled' = TRUE
    /\ csess_cancelled' = TRUE
    /\ UNCHANGED <<run_pc, msg_loop, recorder, player, pipes>>
    /\ UNCHANGED notCli

\* Client::message_loop: the cancelled branch, a receive error or the 60 s timeout
MessageLoopExit ==
    /\ msg_loop = "running"
    /\ msg_loop' = "exited"
    /\ UNCHANGED <<client_cancelled, csess_cancelled, run_pc, recorder, player, pipes>>
    /\ UNCHANGED notCli

\* Client::run, cancelled branch of the select: break, dropping the session future
ClientRunBreak ==
    /\ client_cancelled
    /\ run_pc # "stopped"
    /\ run_pc' = "stopped"
    /\ msg_loop' = "exited"
    /\ UNCHANGED <<client_cancelled, csess_cancelled, recorder, player, pipes>>
    /\ UNCHANGED notCli

\* Client::run, result branch: Client::cleanup -> Session::cleanup
\* (cancel.cancel(); pipelines.stop_all())
ClientCleanup ==
    /\ run_pc = "connected"
    /\ msg_loop = "exited"
    /\ run_pc' = "cleaned"
    /\ csess_cancelled' = TRUE
    /\ pipes' = StopHandle(StopHandle(pipes, recorder), player)
    /\ recorder' = 0
    /\ player' = 0
    /\ UNCHANGED <<client_cancelled, msg_loop>>
    /\ UNCHANGED notCli

cliRest == <<client_cancelled, csess_cancelled, run_pc, msg_loop, recorder, player>>

\* ---- RecordPipeline::run ----

\* lines 106-147: create the channel, spawn the capture thread, create the encoder
RecStart(p, codec_ok) ==
    /\ pipes[p].kind = "record"
    /\ pipes[p].loop = "start"
    /\ pipes' = [pipes EXCEPT ![p].aux = "init",
                              ![p].loop = IF codec_ok THEN "select" ELSE "done",
                              ![p].rx_closed = ~codec_ok]
    /\ UNCHANGED cliRest
    /\ UNCHANGED notCli

RecLoopObservesCancel_Never(p) == FALSE

\* line 152: the select branch that ends the loop
RecLoopObservesCancel(p) == TokenCancelled(p)

\* line 152: cancel.cancelled() => break; run returns and pcm_rx is dropped
RecLoopCancel(p) ==
    /\ pipes[p].kind = "record"
    /\ pipes[p].loop = "select"
    /\ RecLoopObservesCancel(p)
    /\ pipes' = [pipes EXCEPT ![p].loop = "done", ![p].rx_closed = TRUE]
    /\ UNCHANGED cliRest
    /\ UNCHANGED notCli

\* lines 153-164: a frame is received, encoded and (when encoding succeeds) sent
RecLoopFrame(p, encode_ok) ==
    /\ pipes[p].kind = "record"
    /\ pipes[p].loop = "select"
    /\ pipes[p].queue > 0
    /\ pipes' = [pipes EXCEPT ![p].queue = @ - 1,
                              ![p].sent = IF encode_ok THEN @ + 1 ELSE @]
    /\ UNCHANGED cliRest
    /\ UNCHANGED notCli

\* lines 165-168: recv() yields None once the capture thread has dropped pcm_tx
RecLoopClosed(p) ==
    /\ pipes[p].kind = "record"
    /\ pipes[p].loop = "select"
    /\ pipes[p].queue = 0
    /\ pipes[p].aux = "done"
    /\ pipes' = [pipes EXCEPT ![p].loop = "done", ![p].rx_closed = TRUE]
    /\ UNCHANGED cliRest
    /\ UNCHANGED notCli

\* lines 114-122: AudioRecorder::new in the capture thread
CaptureOpen(p, ok) ==
    /\ pipes[p].kind = "record"
    /\ pipes[p].aux = "init"
    /\ pipes' = [pipes EXCEPT ![p].aux = IF ok THEN "head" ELSE "done",
                              ![p].aux_exit = IF ok THEN @ ELSE "open_failed"]
    /\ UNCHANGED cliRest
    /\ UNCHANGED notCli

\* line 125: while !recorder_stop.load()
CaptureHead(p) ==
    /\ pipes[p].kind = "record"
    /\ pipes[p].aux = "head"
    /\ pipes' = IF pipes[p].stop_flag
                THEN [pipes EXCEPT ![p].aux = "done", ![p].aux_exit = "stop_flag"]
                ELSE [pipes EXCEPT ![p].aux = "reading"]
    /\ UNCHANGED cliRest
    /\ UNCHANGED notCli

\* lines 126-127: recorder.read returned a frame; the count of frames is bounded
\* while the consumer is alive
CaptureReadFrame(p) ==
    /\ pipes[p].kind = "record"
    /\ pipes[p].aux = "reading"
    /\ pipes[p].frames < MaxFrames \/ pipes[p].rx_closed
    /\ pipes' = [pipes EXCEPT ![p].aux = "sending",
                              ![p].frames = IF pipes[p].rx_closed THEN @ ELSE @ + 1]
    /\ UNCHANGED cliRest
    /\ UNCHANGED notCli

\* lines 132-134: recorder.read returned Ok(0)
CaptureReadEmpty(p) ==
    /\ pipes[p].kind = "record"
    /\ pipes[p].aux = "reading"
    /\ pipes' = [pipes EXCEPT ![p].aux = "head"]
    /\ UNCHANGED cliRest
    /\ UNCHANGED notCli

\* lines 135-138: recorder.read returned Err
CaptureReadError(p) ==
    /\ pipes[p].kind = "record"
    /\ pipes[p].aux = "reading"
    /\ pipes' = [pipes EXCEPT ![p].aux = "done", ![p].aux_exit = "read_error"]
    /\ UNCHANGED cliRest
    /\ UNCHANGED notCli

\* lines 128-130: pcm_tx.blocking_send: Err once the receiver is dropped, otherwise
\* it waits for room in the channel
CaptureSend(p) ==
    /\ pipes[p].kind = "record"
    /\ pipes[p].aux = "sending"
    /\ pipes[p].rx_closed \/ pipes[p].queue < RECORD_CHANNEL
    /\ pipes' = IF pipes[p].rx_closed
                THEN [pipes EXCEPT ![p].aux = "done", ![p].aux_exit = "closed"]
                ELSE [pipes EXCEPT ![p].aux = "head", ![p].queue = @ + 1]
    /\ UNCHANGED cliRest
    /\ UNCHANGED notCli

\* ---- PlaybackPipeline::run ----

\* lines 216-261: create the channel, spawn the UDP receive task, open the player
PlayStart(p, player_ok) ==
    /\ pipes[p].kind = "playback"
    /\ pipes[p].loop = "start"
    /\ pipes' = [pipes EXCEPT ![p].aux = "recv",
                              ![p].loop = IF player_ok THEN "loop" ELSE "done",
                              ![p].rx_closed = ~player_ok]
    /\ UNCHANGED cliRest
    /\ UNCHANGED notCli

\* line 269: the condition that ends the playback loop
PlayLoopObservesStop(p) == pipes[p].stop_flag

\* line 269: while !player_stop.load(): the loop ends, run returns, rx is dropped
PlayLoopStop(p) ==
    /\ pipes[p].kind = "playback"
    /\ pipes[p].loop = "loop"
    /\ PlayLoopObservesStop(p)
    /\ pipes' = [pipes EXCEPT ![p].loop = "done", ![p].rx_closed = TRUE]
    /\ UNCHANGED cliRest
    /\ UNCHANGED notCli

\* lines 270-297: one iteration: drain the channel, then play the front packet,
\* drop it, or sleep; a decode or write error returns from run
PlayModes == {"play", "drop", "wait"}

PlayLoopIter(p, mode, ok) ==
    /\ pipes[p].kind = "playback"
    /\ pipes[p].loop = "loop"
    /\ ~pipes[p].stop_flag
    /\ LET jb == pipes[p].jitter + pipes[p].queue
       IN CASE jb > 0 /\ mode = "play" /\ ok ->
                 pipes' = [pipes EXCEPT ![p].queue = 0, ![p].jitter = jb - 1,
                                        ![p].played = @ + 1]
            [] jb > 0 /\ mode = "play" /\ ~ok ->
                 pipes' = [pipes EXCEPT ![p].queue = 0, ![p].jitter = jb - 1,
                                        ![p].loop = "done", ![p].rx_closed = TRUE]
            [] jb > 0 /\ mode = "drop" ->
                 pipes' = [pipes EXCEPT ![p].queue = 0, ![p].jitter = jb - 1]
            [] OTHER ->
                 pipes' = [pipes EXCEPT ![p].queue = 0, ![p].jitter = jb]
    /\ UNCHANGED cliRest
    /\ UNCHANGED notCli

\* lines 228-247: the receive task got a datagram and forwards it; the send fails
\* once the receiver is dropped, and only then does the task end
PlayRecvPacket(p) ==
    /\ pipes[p].kind = "playback"
    /\ pipes[p].aux = "recv"
    /\ pipes[p].frames < MaxFrames \/ pipes[p].rx_closed
    /\ pipes[p].rx_closed \/ pipes[p].queue < PLAYBACK_CHANNEL
    /\ pipes' = IF pipes[p].rx_closed
                THEN [pipes EXCEPT ![p].aux = "done", ![p].aux_exit = "closed"]
                ELSE [pipes EXCEPT ![p].queue = @ + 1, ![p].frames = @ + 1]
    /\ UNCHANGED cliRest
    /\ UNCHANGED notCli

CliNext ==
    \/ HandleStartRecording
    \/ HandleStopRecording
    \/ HandleStartPlayback
    \/ HandleStopPlayback
    \/ ClientShutdown
    \/ MessageLoopExit
    \/ ClientRunBreak
    \/ ClientCleanup
    \/ \E p \in PipeIds, ok \in BOOLEAN : RecStart(p, ok)
    \/ \E p \in PipeIds : RecLoopCancel(p)
    \/ \E p \in PipeIds, ok \in BOOLEAN : RecLoopFrame(p, ok)
    \/ \E p \in PipeIds : RecLoopClosed(p)
    \/ \E p \in PipeIds, ok \in BOOLEAN : CaptureOpen(p, ok)
    \/ \E p \in PipeIds : CaptureHead(p)
    \/ \E p \in PipeIds : CaptureReadFrame(p)
    \/ \E p \in PipeIds : CaptureReadEmpty(p)
    \/ \E p \in PipeIds : CaptureReadError(p)
    \/ \E p \in PipeIds : CaptureSend(p)
    \/ \E p \in PipeIds, ok \in BOOLEAN : PlayStart(p, ok)
    \/ \E p \in PipeIds : PlayLoopStop(p)
    \/ \E p \in PipeIds, mode \in PlayModes, ok \in BOOLEAN : PlayLoopIter(p, mode, ok)
    \/ \E p \in PipeIds : PlayRecvPacket(p)

\* The runtime runs every spawned task and thread, a select whose cancelled branch
\* stays ready eventually takes it, and the capture device keeps delivering frames.
\* The read of the capture device is enabled once per turn of the thread's loop,
\* so the frame it eventually delivers is a strong-fairness condition.
\* Nothing obliges the network to deliver another datagram.
CliFairness ==
    \A p \in PipeIds :
        /\ WF_vars(\E ok \in BOOLEAN : RecStart(p, ok))
        /\ WF_vars(RecLoopCancel(p))
        /\ WF_vars(RecLoopClosed(p))
        /\ WF_vars(\E ok \in BOOLEAN : CaptureOpen(p, ok))
        /\ WF_vars(CaptureHead(p))
        /\ SF_vars(CaptureReadFrame(p))
        /\ WF_vars(CaptureSend(p))
        /\ WF_vars(\E ok \in BOOLEAN : PlayStart(p, ok))
        /\ WF_vars(PlayLoopStop(p))
        /\ WF_vars(\E mode \in PlayModes, ok \in BOOLEAN : PlayLoopIter(p, mode, ok))

(***************************************************************************)
(* Server connections: handshake, registration, session loop, cleanup      *)
(* (app/server/mod.rs, session.rs SessionManager, audio_bus.rs)            *)
(***************************************************************************)
\* Bounds of the server model.
MaxConns == 2       \* connections accepted in one run
MaxPort  == 2       \* UDP ports a ClientHello can announce

Conns == 1..MaxConns
Ips   == {1, 2}
AudioAddrs == Ips \X (1..MaxPort)

\* ServerConfig: version and server_auth, and the values a client can send
SERVER_VERSION == "1.0.0"
SERVER_AUTH    == "xiao-server"
Versions == {SERVER_VERSION, "0.9.0"}
Auths    == {SERVER_AUTH, "xiao-client"}

NoMessage == [type |-> "none", version |-> "", auth |-> "", udp_port |-> 0]

\* what conn.recv() can yield as the first message of a connection
FirstMessages ==
    [type : {"ClientHello"}, version : Versions, auth : Auths, udp_port : 1..MaxPort]
        \cup {[NoMessage EXCEPT !.type = "Heartbeat"], [NoMessage EXCEPT !.type = "RecvError"]}

NoConn ==
    [pc |-> "idle", ip |-> 0, msg |-> NoMessage, hello_sent |-> FALSE,
     audio_addr |-> <<0, 0>>, cancelled |-> FALSE,
     reg_sessions |-> FALSE, reg_bus |-> FALSE, result |-> "none",
     api |-> "none", recorder |-> "none", playback |-> "none"]

SrvInit ==
    /\ srv_cancelled = FALSE
    /\ accept_loop = "running"
    /\ conns = [c \in Conns |-> NoConn]
    /\ sessions = {}
    /\ udp_to_tcp = [a \in AudioAddrs |-> 0]
    /\ subscribers = {}

\* Server::run: listener.accept() and the spawn of handle_connection
Accept(c, ip) ==
    /\ accept_loop = "running"
    /\ conns[c].pc = "idle"
    /\ \A d \in Conns : d < c => conns[d].pc # "idle"
    /\ conns' = [conns EXCEPT ![c].pc = "handshake", ![c].ip = ip]
    /\ UNCHANGED <<srv_cancelled, accept_loop, sessions, udp_to_tcp, subscribers>>
    /\ UNCHANGED notSrv

\* Server::shutdown
ServerShutdown ==
    /\ ~srv_cancelled
    /\ srv_cancelled' = TRUE
    /\ UNCHANGED <<accept_loop, conns, sessions, udp_to_tcp, subscribers>>
    /\ UNCHANGED notSrv

\* Server::run: the cancelled branch of the accept loop
AcceptLoopBreak ==
    /\ srv_cancelled
    /\ accept_loop = "running"
    /\ accept_loop' = "stopped"
    /\ UNCHANGED <<srv_cancelled, conns, sessions, udp_to_tcp, subscribers>>
    /\ UNCHANGED notSrv

HandshakeAccepts_NoAuth(msg) ==
    msg.type = "ClientHello" /\ msg.version = SERVER_VERSION

\* Server::handshake: the checks on the first message
HandshakeAccepts(msg) ==
    /\ msg.type = "ClientHello"
    /\ msg.version = SERVER_VERSION
    /\ msg.auth = SERVER_AUTH

\* Server::handshake as called by handle_connection: receive the first message,
\* check it, send ServerHello; any error returns from handle_connection
Handshake(c, msg, send_ok) ==
    /\ conns[c].pc = "handshake"
    /\ conns' = [conns EXCEPT
            ![c].msg = msg,
            ![c].hello_sent = HandshakeAccepts(msg) /\ send_ok,
            ![c].audio_addr = IF HandshakeAccepts(msg) /\ send_ok
                              THEN <<conns[c].ip, msg.udp_port>> ELSE @,
            ![c].pc = IF HandshakeAccepts(msg) /\ send_ok THEN "register_udp" ELSE "closed",
            ![c].result = IF HandshakeAccepts(msg) /\ send_ok THEN @ ELSE "Err"]
    /\ UNCHANGED <<srv_cancelled, accept_loop, sessions, udp_to_tcp, subscribers>>
    /\ UNCHANGED notSrv

\* SessionManager::register, first insert: udp_to_tcp.insert(audio_addr, tcp_addr)
RegisterUdp(c) ==
    /\ conns[c].pc = "register_udp"
    /\ udp_to_tcp' = [udp_to_tcp EXCEPT ![conns[c].audio_addr] = c]
    /\ conns' = [conns EXCEPT ![c].pc = "register_session"]
    /\ UNCHANGED <<srv_cancelled, accept_loop, sessions, subscribers>>
    /\ UNCHANGED notSrv

\* SessionManager::register, second insert: sessions.insert(tcp_addr, session)
RegisterSession(c) ==
    /\ conns[c].pc = "register_session"
    /\ sessions' = sessions \cup {c}
    /\ conns' = [conns EXCEPT ![c].pc = "register_bus", ![c].reg_sessions = TRUE]
    /\ UNCHANGED <<srv_cancelled, accept_loop, udp_to_tcp, subscribers>>
    /\ UNCHANGED notSrv

\* AudioBus::register(audio_addr, true), then the ClientJoined events
RegisterBus(c) ==
    /\ conns[c].pc = "register_bus"
    /\ subscribers' = subscribers \cup {conns[c].audio_addr}
    /\ conns' = [conns EXCEPT ![c].pc = "session_loop", ![c].reg_bus = TRUE]
    /\ UNCHANGED <<srv_cancelled, accept_loop, sessions, udp_to_tcp>>
    /\ UNCHANGED notSrv

\* the session token is a child of the server token
SessionTokenCancelled(c) == srv_cancelled \/ conns[c].cancelled

\* Server::session_loop returns: Ok on the cancelled branch, Err on a receive
\* error, the timeout or a failed handle_packet
SessionLoopReturn(c, how) ==
    /\ conns[c].pc = "session_loop"
    /\ how = "Ok" => SessionTokenCancelled(c)
    /\ conns' = [conns EXCEPT ![c].pc = "unregister_bus", ![c].result = how]
    /\ UNCHANGED <<srv_cancelled, accept_loop, sessions, udp_to_tcp, subscribers>>
    /\ UNCHANGED notSrv

\* handle_connection cleanup: AudioBus::unregister(&audio_addr)
UnregisterBus(c) ==
    /\ conns[c].pc = "unregister_bus"
    /\ subscribers' = subscribers \ {conns[c].audio_addr}
    /\ conns' = [conns EXCEPT ![c].pc = "unregister_session"]
    /\ UNCHANGED <<srv_cancelled, accept_loop, sessions, udp_to_tcp>>
    /\ UNCHANGED notSrv

\* SessionManager::unregister: sessions.remove(tcp_addr)
UnregisterSession(c) ==
    /\ conns[c].pc = "unregister_session"
    /\ sessions' = sessions \ {c}
    /\ conns' = [conns EXCEPT ![c].pc = IF c \in sessions THEN "unregister_udp" ELSE "closed"]
    /\ UNCHANGED <<srv_cancelled, accept_loop, udp_to_tcp, subscribers>>
    /\ UNCHANGED notSrv

Cleanup_Nothing(conn) == conn

\* Session::cleanup: cancel.cancel(), then ActiveStreams::stop_all, which takes
\* both handles and stops them
Cleanup(conn) ==
    [conn EXCEPT !.cancelled = TRUE, !.recorder = "none", !.playback = "none"]

\* SessionManager::unregister: udp_to_tcp.remove(&session.audio_addr) and
\* session.cleanup(); handle_connection then returns the loop's result
UnregisterUdp(c) ==
    /\ conns[c].pc = "unregister_udp"
    /\ udp_to_tcp' = [udp_to_tcp EXCEPT ![conns[c].audio_addr] = 0]
    /\ conns' = [conns EXCEPT ![c] = [Cleanup(conns[c]) EXCEPT !.pc = "closed"]]
    /\ UNCHANGED <<srv_cancelled, accept_loop, sessions, subscribers>>
    /\ UNCHANGED notSrv

StreamKinds == {"recorder", "playback"}

\* Server::start_record / start_play, first line: sessions.get(&addr) hands the
\* caller its own reference to the session
ApiLookup(c, kind) ==
    /\ conns[c].api = "none"
    /\ c \in sessions
    /\ conns' = [conns EXCEPT ![c].api = kind]
    /\ UNCHANGED <<srv_cancelled, accept_loop, sessions, udp_to_tcp, subscribers>>
    /\ UNCHANGED notSrv

\* Server::start_record / start_play: spawn the stream on a child of the session
\* token and store its handle (Session::start_recording / start_playback, which
\* stop the handle they replace)
ApiStartStream(c) ==
    /\ conns[c].api # "none"
    /\ conns' = [conns EXCEPT ![c].api = "none",
                              ![c].recorder = IF conns[c].api = "recorder" THEN "held" ELSE @,
                              ![c].playback = IF conns[c].api = "playback" THEN "held" ELSE @]
    /\ UNCHANGED <<srv_cancelled, accept_loop, sessions, udp_to_tcp, subscribers>>
    /\ UNCHANGED notSrv

\* Server::start_play returns early: WavReader::open or the StartPlayback send fails
ApiFail(c) ==
    /\ conns[c].api = "playback"
    /\ conns' = [conns EXCEPT ![c].api = "none"]
    /\ UNCHANGED <<srv_cancelled, accept_loop, sessions, udp_to_tcp, subscribers>>
    /\ UNCHANGED notSrv

\* a stream runs until its token fires; the token is a child of the session
\* token and is also cancelled when its handle is stopped or dropped
StreamStopped(c, kind) ==
    conns[c][kind] = "held" => SessionTokenCancelled(c)

SrvNext ==
    \/ \E c \in Conns, ip \in Ips : Accept(c, ip)
    \/ ServerShutdown
    \/ AcceptLoopBreak
    \/ \E c \in Conns, msg \in FirstMessages, send_ok \in BOOLEAN : Handshake(c, msg, send_ok)
    \/ \E c \in Conns : RegisterUdp(c)
    \/ \E c \in Conns : RegisterSession(c)
    \/ \E c \in Conns : RegisterBus(c)
    \/ \E c \in Conns, how \in {"Ok", "Err"} : SessionLoopReturn(c, how)
    \/ \E c \in Conns : UnregisterBus(c)
    \/ \E c \in Conns : UnregisterSession(c)
    \/ \E c \in Conns : UnregisterUdp(c)

\* the connections together with the callers of Server::start_record / start_play
SrvStreamsNext ==
    \/ SrvNext
    \/ \E c \in Conns, kind \in StreamKinds : ApiLookup(c, kind)
    \/ \E c \in Conns : ApiStartStream(c)
    \/ \E c \in Conns : ApiFail(c)

(***************************************************************************)
(* UDP discovery: the client of client-rust (services/discovery/udp.rs)    *)
(* and the server of examples/discovery-rust (discovery_protocol.rs)       *)
(***************************************************************************)
\* Bound of the discovery model.
MaxTasks == 1       \* receive tasks spawned by start in one run

\* program constants
PACKET_SIZE         == 28
TIME_WINDOW_SECONDS == 30
HMAC_LEN            == 32
ECHO_LEN            == 32
MIN_RESPONSE_LEN    == 38
BYTE                == 256

\* b"xiaoai-device-01"
DEVICE_ID == <<120, 105, 97, 111, 97, 105, 45, 100, 101, 118, 105, 99, 101, 45, 48, 49>>
\* the client's shared key and the keys a server can be configured with
SECRET  == "your-secret-key"
Secrets == {SECRET, "another-key"}

\* inputs: nonces, clocks, the server's address and port
Nonces       == {1}
ClientTimes  == {1000}
ServerTimes  == {1000}
RequestTimes == {969, 970, 1000, 1030, 1031}
LOCAL_IPV4   == <<192, 168, 1, 10>>
WsPorts      == {8080}
LocalIps     == {"v4", "v6", "err"}     \* what local_ip() yields

\* a plain byte, and a sequence of plain bytes
Bytes(vals) == [i \in 1..Len(vals) |-> [b |-> vals[i]]]
Vals(bytes) == [i \in 1..Len(bytes) |-> bytes[i].b]

\* to_be_bytes / BigEndian::write_u16: big-endian encoding in len bytes
RECURSIVE ToBE(_, _)
ToBE(n, len) == IF len = 0 THEN <<>> ELSE ToBE(n \div BYTE, len - 1) \o <<n % BYTE>>

\* from_be_bytes / BigEndian::read_u64
RECURSIVE FromBE(_)
FromBE(vals) ==
    IF vals = <<>> THEN 0
    ELSE FromBE(SubSeq(vals, 1, Len(vals) - 1)) * BYTE + vals[Len(vals)]

\* HMAC-SHA256: 32 bytes determined by the key and the data
HmacSha256(key, data) == [i \in 1..HMAC_LEN |-> [mac |-> <<key, data, i>>]]

\* slice.starts_with
StartsWith(s, prefix) == Len(s) >= Len(prefix) /\ SubSeq(s, 1, Len(prefix)) = prefix

AbsDiff(a, b) == IF a >= b THEN a - b ELSE b - a

\* UdpDiscoveryService::create_discovery_packet: id, nonce, timestamp, HMAC over them
CreateDiscoveryPacket(nonce, timestamp) ==
    LET body == Bytes(DEVICE_ID) \o Bytes(ToBE(nonce, 4)) \o Bytes(ToBE(timestamp, 8))
    IN body \o HmacSha256(SECRET, body)

\* UdpDiscoveryService::parse_response
ParseResponse(response) ==
    IF Len(response) < MIN_RESPONSE_LEN
    THEN [ok |-> FALSE, ip |-> <<>>, port |-> 0]
    ELSE [ok |-> TRUE,
          ip |-> Vals(SubSeq(response, 33, 36)),
          port |-> FromBE(Vals(SubSeq(response, 37, 38)))]

ValidatePacket_Strict(data, current_time) ==
    /\ Len(data) = PACKET_SIZE
    /\ AbsDiff(current_time, FromBE(Vals(SubSeq(data, 21, 28)))) < TIME_WINDOW_SECONDS

\* DiscoveryService::validate_packet
ValidatePacket(data, current_time) ==
    /\ Len(data) = PACKET_SIZE
    /\ AbsDiff(current_time, FromBE(Vals(SubSeq(data, 21, 28)))) <= TIME_WINDOW_SECONDS

\* DiscoveryService::create_response
CreateResponse(secret, ws_port, request, local_ip) ==
    IF local_ip # "v4"
    THEN [ok |-> FALSE, bytes |-> <<>>]
    ELSE LET echo == SubSeq(request, 1, PACKET_SIZE)
             addr == Bytes(LOCAL_IPV4) \o Bytes(ToBE(ws_port, 2))
         IN [ok |-> TRUE, bytes |-> echo \o addr \o HmacSha256(secret, echo \o addr)]

\* a request in the 28-byte layout the server expects
Request28(nonce, timestamp) ==
    Bytes(DEVICE_ID) \o Bytes(ToBE(nonce, 4)) \o Bytes(ToBE(timestamp, 8))

\* datagrams that other hosts send to the discovery port
OtherRequests ==
    {Request28(1, ts) : ts \in RequestTimes}
        \cup {SubSeq(Request28(1, 1000), 1, 27), Request28(1, 1000) \o Bytes(<<0>>), <<>>}

\* datagrams that other hosts, having seen the broadcast, send to the client
OtherResponses(packet) ==
    LET echo == SubSeq(packet, 1, ECHO_LEN)
        addr == Bytes(<<10, 0, 0, 66>>) \o Bytes(ToBE(4444, 2))
    IN {echo \o addr,
        echo \o addr \o HmacSha256("another-key", echo \o addr),
        echo \o Bytes(<<10, 0>>),
        Request28(1, 1000) \o addr}

NoHandled ==
    [from |-> "none", data |-> <<>>, now |-> 0, local_ip |-> "none",
     send_ok |-> FALSE, responded |-> FALSE, response |-> <<>>]

NoDiscover ==
    [pc |-> "idle", packet |-> <<>>, timestamp |-> 0, accepted |-> <<>>,
     ip |-> <<>>, port |-> 0]

DiscInit ==
    /\ dsrv = [constructed |-> FALSE, secret |-> "", ws_port |-> 0, running |-> FALSE]
    /\ dsrv_tasks = [t \in 1..MaxTasks |-> "none"]
    /\ dsrv_last = NoHandled
    /\ to_server = {}
    /\ to_client = {}
    /\ dcli = NoDiscover

\* DiscoveryService::new
DsrvNew(secret, ws_port) ==
    /\ ~dsrv.constructed
    /\ dsrv' = [constructed |-> TRUE, secret |-> secret, ws_port |-> ws_port,
                running |-> FALSE]
    /\ UNCHANGED <<dsrv_tasks, dsrv_last, to_server, to_client, dcli>>
    /\ UNCHANGED notDisc

\* DiscoveryService::start: returns when already running, else spawns the task
DsrvStart ==
    /\ dsrv.constructed
    /\ IF dsrv.running
       THEN UNCHANGED <<dsrv, dsrv_tasks>>
       ELSE /\ dsrv' = [dsrv EXCEPT !.running = TRUE]
            /\ \E t \in 1..MaxTasks :
                /\ dsrv_tasks[t] = "none"
                /\ \A u \in 1..MaxTasks : u < t => dsrv_tasks[u] # "none"
                /\ dsrv_tasks' = [dsrv_tasks EXCEPT ![t] = "head"]
    /\ UNCHANGED <<dsrv_last, to_server, to_client, dcli>>
    /\ UNCHANGED notDisc

\* DiscoveryService::stop
DsrvStop ==
    /\ dsrv.constructed
    /\ dsrv' = [dsrv EXCEPT !.running = FALSE]
    /\ UNCHANGED <<dsrv_tasks, dsrv_last, to_server, to_client, dcli>>
    /\ UNCHANGED notDisc

\* start, line 47: while running.load()
DsrvLoopHead(t) ==
    /\ dsrv_tasks[t] = "head"
    /\ dsrv_tasks' = [dsrv_tasks EXCEPT ![t] = IF dsrv.running THEN "recv" ELSE "done"]
    /\ UNCHANGED <<dsrv, dsrv_last, to_server, to_client, dcli>>
    /\ UNCHANGED notDisc

\* start, lines 48-65: a datagram is received, validated and, when a response
\* can be built, answered to its sender
DsrvHandle(t, from, data, now, local_ip, send_ok) ==
    /\ dsrv_tasks[t] = "recv"
    /\ data \in (IF from = "client" THEN to_server ELSE OtherRequests)
    /\ LET valid == ValidatePacket(data, now)
           resp  == IF valid THEN CreateResponse(dsrv.secret, dsrv.ws_port, data, local_ip)
                    ELSE [ok |-> FALSE, bytes |-> <<>>]
           sent  == valid /\ resp.ok /\ send_ok
       IN /\ dsrv_last' = [from |-> from, data |-> data, now |-> now,
                           local_ip |-> local_ip, send_ok |-> send_ok,
                           responded |-> sent,
                           response |-> IF sent THEN resp.bytes ELSE <<>>]
          /\ to_client' = IF sent /\ from = "client"
                          THEN to_client \cup {resp.bytes} ELSE to_client
    /\ to_server' = IF from = "client" THEN to_server \ {data} ELSE to_server
    /\ dsrv_tasks' = [dsrv_tasks EXCEPT ![t] = "head"]
    /\ UNCHANGED <<dsrv, dcli>>
    /\ UNCHANGED notDisc

\* start, lines 66-70: recv_from failed
DsrvRecvError(t) ==
    /\ dsrv_tasks[t] = "recv"
    /\ dsrv_tasks' = [dsrv_tasks EXCEPT ![t] = "head"]
    /\ UNCHANGED <<dsrv, dsrv_last, to_server, to_client, dcli>>
    /\ UNCHANGED notDisc

\* discover, lines 175-180: build the packet and broadcast it
Discover(nonce, timestamp, send_ok) ==
    /\ dcli.pc = "idle"
    /\ dcli' = [dcli EXCEPT !.pc = IF send_ok THEN "waiting" ELSE "error",
                            !.packet = CreateDiscoveryPacket(nonce, timestamp),
                            !.timestamp = timestamp]
    /\ to_server' = IF send_ok THEN to_server \cup {CreateDiscoveryPacket(nonce, timestamp)}
                    ELSE to_server
    /\ UNCHANGED <<dsrv, dsrv_tasks, dsrv_last, to_client>>
    /\ UNCHANGED notDisc

\* discover, lines 219-231: a datagram arrives; it is parsed when it starts with
\* the first 32 bytes of the packet, else the loop goes on waiting
DiscoverRecv(response) ==
    /\ dcli.pc = "waiting"
    /\ response \in to_client \cup OtherResponses(dcli.packet)
    /\ to_client' = to_client \ {response}
    /\ IF StartsWith(response, SubSeq(dcli.packet, 1, ECHO_LEN))
       THEN LET r == ParseResponse(response)
            IN dcli' = [dcli EXCEPT !.pc = IF r.ok THEN "returned" ELSE "error",
                                    !.accepted = IF r.ok THEN response ELSE @,
                                    !.ip = r.ip, !.port = r.port]
       ELSE UNCHANGED dcli
    /\ UNCHANGED <<dsrv, dsrv_tasks, dsrv_last, to_server>>
    /\ UNCHANGED notDisc

\* discover, lines 194-196 and 215-217: the 3 s timeout
DiscoverTimeout ==
    /\ dcli.pc = "waiting"
    /\ dcli' = [dcli EXCEPT !.pc = "timeout"]
    /\ UNCHANGED <<dsrv, dsrv_tasks, dsrv_last, to_server, to_client>>
    /\ UNCHANGED notDisc

\* discover, line 232: recv_from failed
DiscoverRecvError ==
    /\ dcli.pc = "waiting"
    /\ dcli' = [dcli EXCEPT !.pc = "error"]
    /\ UNCHANGED <<dsrv, dsrv_tasks, dsrv_last, to_server, to_client>>
    /\ UNCHANGED notDisc

DiscNext ==
    \/ \E secret \in Secrets, ws_port \in WsPorts : DsrvNew(secret, ws_port)
    \/ DsrvStart
    \/ DsrvStop
    \/ \E t \in 1..MaxTasks : DsrvLoopHead(t)
    \/ \E t \in 1..MaxTasks, from \in {"client", "other"} :
          \E data \in (IF from = "client" THEN to_server ELSE OtherRequests),
             now \in ServerTimes, local_ip \in LocalIps, send_ok \in BOOLEAN :
                DsrvHandle(t, from, data, now, local_ip, send_ok)
    \/ \E t \in 1..MaxTasks : DsrvRecvError(t)
    \/ \E nonce \in Nonces, timestamp \in ClientTimes, send_ok \in BOOLEAN :
            Discover(nonce, timestamp, send_ok)
    \/ /\ dcli.pc = "waiting"
       /\ \E response \in to_client \cup OtherResponses(dcli.packet) : DiscoverRecv(response)
    \/ DiscoverTimeout
    \/ DiscoverRecvError

(***************************************************************************)
(* Earlier server core: the control loop of one connection and call_shell  *)
(* (app/server/core.rs)                                                    *)
(***************************************************************************)
\* Bounds of the core model.
MaxCoreCalls == 2   \* call_shell invocations in one run
MaxInbox     == 1   \* frames that have arrived and are not yet read

CoreCallers == 1..MaxCoreCalls

\* the frames the client can send after the handshake
CoreFrames ==
    {[type |-> "Ping", id |-> 0], [type |-> "Other", id |-> 0]}
        \cup [type : {"RpcResponse"}, id : 1..(MaxCoreCalls + 1)]

\* the holder of the control mutex
CtlFree      == [by |-> "free", caller |-> 0]
CtlLoop      == [by |-> "loop", caller |-> 0]
CtlCaller(c) == [by |-> "caller", caller |-> c]

NoCoreCall == [pc |-> "idle", id |-> 0, chan |-> "none"]

\* handle_connection after the handshake, the session inserted (lines 101-110)
CoreInit ==
    /\ core_ctl = CtlFree
    /\ core_loop = "lock"
    /\ core_inbox = <<>>
    /\ core_next_id = 1
    /\ core_pending = {}
    /\ core_calls = [c \in CoreCallers |-> NoCoreCall]

\* the client writes a frame to the control connection
CoreFrameArrives(f) ==
    /\ Len(core_inbox) < MaxInbox
    /\ core_inbox' = Append(core_inbox, f)
    /\ UNCHANGED <<core_ctl, core_loop, core_next_id, core_pending, core_calls>>
    /\ UNCHANGED notCore

\* handle_connection, line 114: control.lock().await at the top of the loop
CoreLoopLock ==
    /\ core_loop = "lock"
    /\ core_ctl = CtlFree
    /\ core_ctl' = CtlLoop
    /\ core_loop' = "recv"
    /\ UNCHANGED <<core_inbox, core_next_id, core_pending, core_calls>>
    /\ UNCHANGED notCore

\* RpcManager::fulfill (core.rs): remove the sender and send the result
CoreFulfill(cs, id) ==
    [c \in CoreCallers |->
        IF id \in core_pending /\ cs[c].id = id /\ cs[c].chan = "empty"
        THEN [cs[c] EXCEPT !.chan = "value"] ELSE cs[c]]

\* handle_connection, lines 115-130: recv_packet returns a frame, the guard is
\* dropped, an RpcResponse is fulfilled, a Ping goes on to send Pong
CoreLoopRecv ==
    /\ core_loop = "recv"
    /\ core_inbox # <<>>
    /\ LET f == Head(core_inbox)
       IN /\ core_loop' = IF f.type = "Ping" THEN "pong_lock" ELSE "lock"
          /\ core_calls' = IF f.type = "RpcResponse"
                           THEN CoreFulfill(core_calls, f.id) ELSE core_calls
          /\ core_pending' = IF f.type = "RpcResponse"
                             THEN core_pending \ {f.id} ELSE core_pending
    /\ core_inbox' = Tail(core_inbox)
    /\ core_ctl' = CtlFree
    /\ UNCHANGED core_next_id
    /\ UNCHANGED notCore

\* handle_connection, line 115: recv_packet fails; `?` returns, dropping the guard
CoreLoopRecvError ==
    /\ core_loop = "recv"
    /\ core_loop' = "returned"
    /\ core_ctl' = CtlFree
    /\ UNCHANGED <<core_inbox, core_next_id, core_pending, core_calls>>
    /\ UNCHANGED notCore

\* handle_connection, lines 123-125: control.lock().await for the Pong
CoreLoopPongLock ==
    /\ core_loop = "pong_lock"
    /\ core_ctl = CtlFree
    /\ core_ctl' = CtlLoop
    /\ core_loop' = "pong_send"
    /\ UNCHANGED <<core_inbox, core_next_id, core_pending, core_calls>>
    /\ UNCHANGED notCore

\* handle_connection, lines 126-127: send_packet(Pong), the guard is dropped
CoreLoopPongSend(ok) ==
    /\ core_loop = "pong_send"
    /\ core_ctl' = CtlFree
    /\ core_loop' = IF ok THEN "lock" ELSE "returned"
    /\ UNCHANGED <<core_inbox, core_next_id, core_pending, core_calls>>
    /\ UNCHANGED notCore

\* call_shell, lines 136-142: look the session up, RpcManager::alloc_id
CoreCallAlloc(c) ==
    /\ core_calls[c].pc = "idle"
    /\ core_next_id <= MaxCoreCalls
    /\ core_calls' = [core_calls EXCEPT ![c] =
            [pc |-> "want_lock", id |-> core_next_id, chan |-> "empty"]]
    /\ core_next_id' = core_next_id + 1
    /\ core_pending' = core_pending \cup {core_next_id}
    /\ UNCHANGED <<core_ctl, core_loop, core_inbox>>
    /\ UNCHANGED notCore

\* call_shell, lines 143-146: session.control.lock().await
CoreCallLock(c) ==
    /\ core_calls[c].pc = "want_lock"
    /\ core_ctl = CtlFree
    /\ core_ctl' = CtlCaller(c)
    /\ core_calls' = [core_calls EXCEPT ![c].pc = "sending"]
    /\ UNCHANGED <<core_loop, core_inbox, core_next_id, core_pending>>
    /\ UNCHANGED notCore

\* call_shell, lines 147-152: send_packet(RpcRequest), the guard is dropped
CoreCallSend(c, ok) ==
    /\ core_calls[c].pc = "sending"
    /\ core_ctl' = CtlFree
    /\ core_calls' = [core_calls EXCEPT ![c].pc = IF ok THEN "waiting" ELSE "failed"]
    /\ UNCHANGED <<core_loop, core_inbox, core_next_id, core_pending>>
    /\ UNCHANGED notCore

\* call_shell, line 153: rx.await yields the result
CoreCallResult(c) ==
    /\ core_calls[c].pc = "waiting"
    /\ core_calls[c].chan = "value"
    /\ core_calls' = [core_calls EXCEPT ![c].pc = "done"]
    /\ UNCHANGED <<core_ctl, core_loop, core_inbox, core_next_id, core_pending>>
    /\ UNCHANGED notCore

CoreNext ==
    \/ \E f \in CoreFrames : CoreFrameArrives(f)
    \/ CoreLoopLock
    \/ CoreLoopRecv
    \/ CoreLoopRecvError
    \/ CoreLoopPongLock
    \/ \E ok \in BOOLEAN : CoreLoopPongSend(ok)
    \/ \E c \in CoreCallers : CoreCallAlloc(c)
    \/ \E c \in CoreCallers : CoreCallLock(c)
    \/ \E c \in CoreCallers, ok \in BOOLEAN : CoreCallSend(c, ok)
    \/ \E c \in CoreCallers : CoreCallResult(c)

(***************************************************************************)
(* Audio bus: receiver and broadcaster tasks (app/server/audio_bus.rs)     *)
(***************************************************************************)
\* Bound of the audio bus model.
MaxBusFrames == 2   \* datagrams read by run_receiver in one run

\* AudioFrame: the source address; registered is history, whether the source was
\* a subscriber when run_receiver read the datagram
NoFrame == [source |-> <<0, 0>>, registered |-> FALSE]
NoDelivery == [source |-> <<0, 0>>, to |-> <<0, 0>>, registered |-> FALSE]

\* the UDP addresses that register with the bus or send it datagrams
BusAddrs == {<<1, 1>>, <<1, 2>>, <<2, 1>>}

BusInit ==
    /\ bus_channel = <<>>
    /\ bus_cur = NoFrame
    /\ bus_visited = {}
    /\ bus_delivered = NoDelivery
    /\ bus_received = 0

busRest == <<srv_cancelled, accept_loop, conns, sessions, udp_to_tcp>>

\* AudioBus::register(addr, true), as Server::handle_connection calls it
BusRegister(a) ==
    /\ a \notin subscribers
    /\ subscribers' = subscribers \cup {a}
    /\ UNCHANGED <<busVars, busRest, notBus>>

\* AudioBus::unregister
BusUnregister(a) ==
    /\ a \in subscribers
    /\ subscribers' = subscribers \ {a}
    /\ UNCHANGED <<busVars, busRest, notBus>>

ReceiverAccepts_Any(src) == TRUE

\* run_receiver: only datagrams of registered senders are published
ReceiverAccepts(src) == src \in subscribers

\* run_receiver, one iteration with Ok((packet, src_addr)): publish or drop
BusRecv(src) ==
    /\ bus_received < MaxBusFrames
    /\ bus_received' = bus_received + 1
    /\ bus_channel' = IF ReceiverAccepts(src)
                      THEN Append(bus_channel,
                                  [source |-> src, registered |-> src \in subscribers])
                      ELSE bus_channel
    /\ UNCHANGED <<bus_cur, bus_visited, bus_delivered, subscribers, busRest, notBus>>

\* run_broadcaster: rx.recv() returns Ok(frame); AudioBus::broadcast starts
BusBroadcasterRecv ==
    /\ bus_cur = NoFrame
    /\ bus_channel # <<>>
    /\ bus_cur' = Head(bus_channel)
    /\ bus_channel' = Tail(bus_channel)
    /\ bus_visited' = {}
    /\ UNCHANGED <<bus_delivered, bus_received, subscribers, busRest, notBus>>

\* AudioBus::broadcast: the self-filter of a subscriber registered with
\* filter_self = true
SelfFiltered(frame, sub) == frame.source = sub

\* AudioBus::broadcast, one entry of subscribers.iter(): skip the sender itself,
\* otherwise socket.send(&frame.packet, sub.addr)
BusBroadcastEntry(sub) ==
    /\ bus_cur # NoFrame
    /\ sub \in subscribers \ bus_visited
    /\ bus_visited' = bus_visited \cup {sub}
    /\ bus_delivered' = IF SelfFiltered(bus_cur, sub)
                        THEN bus_delivered
                        ELSE [source |-> bus_cur.source, to |-> sub,
                              registered |-> bus_cur.registered]
    /\ UNCHANGED <<bus_channel, bus_cur, bus_received, subscribers, busRest, notBus>>

\* AudioBus::broadcast returns: the iteration is exhausted
BusBroadcastDone ==
    /\ bus_cur # NoFrame
    /\ subscribers \subseteq bus_visited
    /\ bus_cur' = NoFrame
    /\ bus_visited' = {}
    /\ UNCHANGED <<bus_channel, bus_delivered, bus_received, subscribers, busRest, notBus>>

BusNext ==
    \/ \E a \in BusAddrs : BusRegister(a)
    \/ \E a \in BusAddrs : BusUnregister(a)
    \/ \E src \in BusAddrs : BusRecv(src)
    \/ BusBroadcasterRecv
    \/ \E sub \in BusAddrs : BusBroadcastEntry(sub)
    \/ BusBroadcastDone

(***************************************************************************)
(* Incoming RPC requests: RpcManager::handle_rpc_request, RpcHandler       *)
(* (net/rpc.rs) and Shell::run (utils/shell.rs)                            *)
(***************************************************************************)
\* Bound of the request model.
MaxRequests == 2    \* RpcRequest packets handled in one run

Requests        == 1..MaxRequests
RequestIds      == 1..2
Commands        == {"Shell", "Other"}
HandlerTimeouts == Timeouts \cup {ZeroTimeout}

\* CommandError codes (net/command.rs)
CODE_INTERNAL        == -500
CODE_TIMEOUT         == -408
CODE_NOT_IMPLEMENTED == -501

\* the messages of the results handle_rpc_request can send
MSG_TASK_TIMED_OUT  == "Task {id} timed out after {ms}ms"
MSG_SHELL_TIMED_OUT == "Shell execution timed out"
MSG_SPAWN_FAILED    == "Failed to spawn shell command"
MSG_NOT_IMPLEMENTED == "Not implemented"

\* message.contains("timed out")
ContainsTimedOut(msg) == msg \in {MSG_TASK_TIMED_OUT, MSG_SHELL_TIMED_OUT}

\* CommandResult::Shell(resp) and CommandResult::Error(CommandError{code, message})
ShellResult       == [kind |-> "Shell", code |-> 0, message |-> ""]
ErrorResult(c, m) == [kind |-> "Error", code |-> c, message |-> m]

NoRequest ==
    [pc |-> "idle", id |-> 0, run_async |-> FALSE, timeout |-> [some |-> FALSE, ms |-> 0],
     command |-> "none", returned |-> FALSE, child |-> "none",
     outer |-> "none", inner |-> "none", on_timeout |-> FALSE, responses |-> <<>>]

ReqInit == reqs = [r \in Requests |-> NoRequest]

\* handle_rpc_request, lines 121-162: build the task; spawn it and return when
\* run_async, otherwise await it
HandleRpcRequest(r, id, run_async, timeout, command) ==
    /\ reqs[r].pc = "idle"
    /\ \A q \in Requests : q < r => reqs[q].pc # "idle"
    /\ reqs' = [reqs EXCEPT ![r] = [NoRequest EXCEPT
                    !.pc = "task", !.id = id, !.run_async = run_async,
                    !.timeout = timeout, !.command = command, !.returned = run_async]]
    /\ UNCHANGED notReq

SendResponse_Dropped(req, result) == req.responses

\* sender(ControlPacket::RpcResponse { id, result }).await
SendResponse(req, result) ==
    Append(req.responses, [id |-> req.id, result |-> result])

\* the task ends with the send of its response
Finish(req, result, child, on_timeout) ==
    [req EXCEPT !.pc = "done", !.returned = TRUE, !.child = child,
                !.on_timeout = on_timeout, !.responses = SendResponse(req, result)]

\* first poll of the task: tokio::time::timeout(d, execute_future) fixes the outer
\* deadline, then polls RpcHandler::handle, which for a Shell command runs
\* Shell::run up to its own timeout (deadline fixed after the spawn) and polls
\* that; a zero timer has elapsed when it is first polled, and Timeout polls the
\* wrapped future before its timer
TaskFirstPoll(r, spawn_ok) ==
    LET req == reqs[r] IN
    /\ req.pc = "task"
    /\ reqs' = [reqs EXCEPT ![r] =
          IF req.command # "Shell"
          THEN Finish(req, ErrorResult(CODE_NOT_IMPLEMENTED, MSG_NOT_IMPLEMENTED), "none", FALSE)
          ELSE IF ~spawn_ok
          THEN Finish(req, ErrorResult(CODE_INTERNAL, MSG_SPAWN_FAILED), "none", FALSE)
          ELSE IF req.timeout = ZeroTimeout
          THEN Finish(req, ErrorResult(CODE_INTERNAL, MSG_SHELL_TIMED_OUT), "killed", TRUE)
          ELSE [req EXCEPT !.pc = "exec", !.child = "running",
                           !.outer = IF req.timeout.some THEN "armed" ELSE "none",
                           !.inner = IF req.timeout.some THEN "armed" ELSE "none"]]
    /\ UNCHANGED notReq

\* the sh process exits and its pipes close
ChildExits(r) ==
    /\ reqs[r].pc = "exec"
    /\ reqs[r].child = "running"
    /\ reqs' = [reqs EXCEPT ![r].child = "exited"]
    /\ UNCHANGED notReq

\* the timer driver fires the timer of handle_rpc_request (rpc.rs:135)
OuterTimerFires(r) ==
    /\ reqs[r].pc = "exec"
    /\ reqs[r].outer = "armed"
    /\ reqs' = [reqs EXCEPT ![r].outer = "elapsed"]
    /\ UNCHANGED notReq

\* the timer driver fires the timer of Shell::run (shell.rs:61), whose deadline
\* is the later of the two by the time the spawn took
InnerTimerFires(r) ==
    /\ reqs[r].pc = "exec"
    /\ reqs[r].inner = "armed"
    /\ reqs[r].outer = "elapsed"
    /\ reqs' = [reqs EXCEPT ![r].inner = "elapsed"]
    /\ UNCHANGED notReq

\* a later poll of the task, after a wake-up: run_logic first, then the timer of
\* Shell::run, then the timer of handle_rpc_request; dropping run_logic drops
\* the Child, which kill_on_drop(true) kills
TaskPoll(r) ==
    LET req == reqs[r] IN
    /\ req.pc = "exec"
    /\ req.child = "exited" \/ req.inner = "elapsed" \/ req.outer = "elapsed"
    /\ reqs' = [reqs EXCEPT ![r] =
          IF req.child = "exited"
          THEN Finish(req, ShellResult, "exited", FALSE)
          ELSE IF req.inner = "elapsed"
          THEN Finish(req, ErrorResult(CODE_INTERNAL, MSG_SHELL_TIMED_OUT), "killed", TRUE)
          ELSE Finish(req, ErrorResult(CODE_TIMEOUT, MSG_TASK_TIMED_OUT), "killed", TRUE)]
    /\ UNCHANGED notReq

ReqNext ==
    \/ \E r \in Requests, id \in RequestIds, run_async \in BOOLEAN,
          timeout \in HandlerTimeouts, command \in Commands :
            HandleRpcRequest(r, id, run_async, timeout, command)
    \/ \E r \in Requests, spawn_ok \in BOOLEAN : TaskFirstPoll(r, spawn_ok)
    \/ \E r \in Requests : ChildExits(r)
    \/ \E r \in Requests : OuterTimerFires(r)
    \/ \E r \in Requests : InnerTimerFires(r)
    \/ \E r \in Requests : TaskPoll(r)

(***************************************************************************)
(* Control connection framing: ControlConnection::recv_packet              *)
(* (net/network.rs)                                                        *)
(***************************************************************************)
\* Bound of the framing model.
MaxRecvs == 4       \* recv_packet calls in one run

\* 10 * 1024 * 1024
MAX_PACKET_LEN == 10485760

\* length prefixes a peer can send (u32)
FrameLens == {0, 1, 1048575, 1048576, 1048577, 2097152, 10485760, 10485761}

\* Bound of the sending side.
MaxSent == 2        \* send_packet calls in one run

\* enum ControlPacket: the variants in declaration order
ControlPacketVariants ==
    <<"Discovery", "ServerHello", "ClientHello", "Ping", "Pong", "RpcRequest",
      "RpcResponse", "ServerEvent", "ClientEvent", "StartRecording", "StopRecording",
      "StartPlayback", "StopPlayback", "Subscribe", "Unsubscribe">>

\* the variant index serde hands to the serializer: the position in the
\* declaration, counted from 0
VariantIndex(v) ==
    (CHOOSE k \in 1..Len(ControlPacketVariants) : ControlPacketVariants[k] = v) - 1

\* postcard's varint(u32): seven bits per byte, low bits first, the top bit set
\* on every byte but the last
RECURSIVE Varint(_)
Varint(n) == IF n < 128 THEN <<n>> ELSE <<128 + (n % 128)>> \o Varint(n \div 128)

\* number of bytes postcard writes for the fields of a variant (unit variants
\* have none; the others are given one representative payload)
PayloadLen(v) == IF v \in {"Ping", "Pong", "StopRecording", "StopPlayback"} THEN 0 ELSE 4

\* postcard::to_allocvec(packet): the variant index as a varint, then the fields
ToAllocvec(v) == [tag |-> Varint(VariantIndex(v)), payload_len |-> PayloadLen(v)]

NetInit ==
    /\ net_sent = <<>>
    /\ net_wire = <<>>
    /\ net_pc = "idle"
    /\ net_len = 0
    /\ net_body_read = FALSE
    /\ net_result = "none"
    /\ net_count = 0

\* recv_packet, lines 61-64: read_u32 returned len; a prefix over the limit is
\* an error, returned before the body is read
NetReadLen(len) ==
    /\ net_pc = "idle"
    /\ net_count < MaxRecvs
    /\ net_count' = net_count + 1
    /\ net_len' = len
    /\ net_body_read' = FALSE
    /\ net_pc' = IF len > MAX_PACKET_LEN THEN "idle" ELSE "body"
    /\ net_result' = IF len > MAX_PACKET_LEN THEN "TooLarge" ELSE "none"
    /\ UNCHANGED <<net_sent, net_wire, notNet>>

\* recv_packet, line 61: read_u32 failed (the peer closed the connection)
NetReadLenError ==
    /\ net_pc = "idle"
    /\ net_count < MaxRecvs
    /\ net_count' = net_count + 1
    /\ net_len' = 0
    /\ net_body_read' = FALSE
    /\ net_result' = "IoError"
    /\ UNCHANGED <<net_pc, net_sent, net_wire, notNet>>

\* recv_packet, lines 65-68: read_exact of len bytes, then postcard::from_bytes
NetReadBody(io_ok, decode_ok) ==
    /\ net_pc = "body"
    /\ net_pc' = "idle"
    /\ net_body_read' = TRUE
    /\ net_result' = IF ~io_ok THEN "IoError"
                     ELSE IF ~decode_ok THEN "DecodeError" ELSE "Ok"
    /\ UNCHANGED <<net_len, net_count, net_sent, net_wire, notNet>>

\* ControlConnection::send_packet: write_u32(bytes.len()), write_all(&bytes)
NetSendPacket(v) ==
    /\ Len(net_sent) < MaxSent
    /\ net_sent' = Append(net_sent, v)
    /\ net_wire' = Append(net_wire,
            LET bytes == ToAllocvec(v)
            IN [len |-> Len(bytes.tag) + bytes.payload_len, body |-> bytes])
    /\ UNCHANGED <<net_pc, net_len, net_body_read, net_result, net_count, notNet>>

NetNext ==
    \/ \E len \in FrameLens : NetReadLen(len)
    \/ NetReadLenError
    \/ \E io_ok, decode_ok \in BOOLEAN : NetReadBody(io_ok, decode_ok)
    \/ \E v \in {ControlPacketVariants[k] : k \in 1..Len(ControlPacketVariants)} :
          NetSendPacket(v)

(***************************************************************************)
(* client-rust main loop, discovery mode: AppClient::run (bin/client.rs)   *)
(***************************************************************************)
\* Bounds of the main-loop model.
MaxAppRounds == 8   \* discover() calls in one run
MaxAppRetry  == 4   \* cap of retry_count

\* AppClient::run, lines 71-76: the discovery service is built, retry_count = 0
AppInit ==
    /\ app_pc = "discover"
    /\ app_retry_count = 0
    /\ app_after = "start"
    /\ app_rounds = 1

\* lines 78-85: discover() returned an address
AppDiscoverOk ==
    /\ app_pc = "discover"
    /\ app_pc' = "connect"
    /\ app_retry_count' = 0
    /\ UNCHANGED <<app_after, app_rounds, notApp>>

\* lines 86-93: discover() failed (timeout or socket error); sleep 1 s, continue
AppDiscoverErr ==
    /\ app_pc = "discover"
    /\ app_retry_count < MaxAppRetry
    /\ app_pc' = "backoff"
    /\ app_retry_count' = app_retry_count + 1
    /\ UNCHANGED <<app_after, app_rounds, notApp>>

\* lines 99-103: connect_async succeeded, handle_connection starts
AppConnectOk ==
    /\ app_pc = "connect"
    /\ app_pc' = "session"
    /\ UNCHANGED <<app_retry_count, app_after, app_rounds, notApp>>

\* lines 104-108: connect_async failed; sleep 1 s, continue
AppConnectErr ==
    /\ app_pc = "connect"
    /\ app_pc' = "backoff"
    /\ UNCHANGED <<app_retry_count, app_after, app_rounds, notApp>>

\* sleep(Duration::from_secs(1)) is over: the loop starts over with discover()
AppBackoffDone ==
    /\ app_pc = "backoff"
    /\ app_rounds < MaxAppRounds
    /\ app_pc' = "discover"
    /\ app_after' = "backoff"
    /\ app_rounds' = app_rounds + 1
    /\ UNCHANGED <<app_retry_count, notApp>>

\* lines 102 and 114-121: process_messages returned, dispose ran,
\* handle_connection returns and the loop body ends: discover() is next
AppSessionEnds ==
    /\ app_pc = "session"
    /\ app_rounds < MaxAppRounds
    /\ app_pc' = "discover"
    /\ app_after' = "session"
    /\ app_rounds' = app_rounds + 1
    /\ UNCHANGED <<app_retry_count, notApp>>

AppNext ==
    \/ AppDiscoverOk
    \/ AppDiscoverErr
    \/ AppConnectOk
    \/ AppConnectErr
    \/ AppBackoffDone
    \/ AppSessionEnds

(***************************************************************************)
(* client-v2 run loop: Client::run, discover_and_connect, handle_session,  *)
(* handshake (app/client/mod.rs, app/client/session.rs)                    *)
(***************************************************************************)
\* Bound of the run-loop model.
MaxRunRounds == 3   \* discover_and_connect() calls in one run

\* config.version and config.client_auth as handshake reads them
CLIENT_VERSION == SERVER_VERSION
CLIENT_AUTH    == "xiao-client"

NoReply == [type |-> "none", version |-> "", auth |-> ""]

\* what conn.recv() can yield after ClientHello was sent; "error" is the
\* failure of conn.send or of conn.recv
Replies ==
    [type : {"ServerHello"}, version : Versions, auth : Auths]
        \cup {[type |-> "Ping", version |-> "", auth |-> ""],
              [type |-> "error", version |-> "", auth |-> ""]}

ClientHandshakeAccepts_NoAuth(reply) ==
    reply.type = "ServerHello" /\ reply.version = CLIENT_VERSION

\* handshake: the match on the reply
ClientHandshakeAccepts(reply) ==
    /\ reply.type = "ServerHello"
    /\ reply.version = CLIENT_VERSION
    /\ reply.auth = CLIENT_AUTH

\* Client::new and the first iteration of Client::run
RunInit ==
    /\ cr_pc = "discover"
    /\ cr_cancel = FALSE
    /\ cr_session = FALSE
    /\ cr_heartbeat = FALSE
    /\ cr_msg_loop = FALSE
    /\ cr_reply = NoReply
    /\ cr_rounds = 1

\* discover_and_connect: Discovery::listen().await?
RunDiscover(ok) ==
    /\ cr_pc = "discover"
    /\ cr_pc' = IF ok THEN "connect" ELSE "returned"
    /\ UNCHANGED <<cr_cancel, cr_session, cr_heartbeat, cr_msg_loop, cr_reply,
                   cr_rounds, notRun>>

\* TcpStream::connect(..).await?, Connection::new(stream)?, AudioSocket::bind().await?
RunConnect(ok) ==
    /\ cr_pc = "connect"
    /\ cr_pc' = IF ok THEN "handshake" ELSE "returned"
    /\ UNCHANGED <<cr_cancel, cr_session, cr_heartbeat, cr_msg_loop, cr_reply,
                   cr_rounds, notRun>>

\* handle_session from handshake(..).await? on: on Ok the session is stored,
\* the heartbeat is spawned and message_loop starts; on Err `?` returns
RunHandshake(reply) ==
    /\ cr_pc = "handshake"
    /\ cr_reply' = reply
    /\ IF ClientHandshakeAccepts(reply)
       THEN /\ cr_session' = TRUE
            /\ cr_heartbeat' = TRUE
            /\ cr_msg_loop' = TRUE
            /\ cr_pc' = "session"
       ELSE /\ cr_pc' = "returned"
            /\ UNCHANGED <<cr_session, cr_heartbeat, cr_msg_loop>>
    /\ UNCHANGED <<cr_cancel, cr_rounds, notRun>>

\* message_loop returns: recv error, 60 s of silence, handler error, or the
\* session token is cancelled
RunMessageLoopEnds ==
    /\ cr_pc = "session"
    /\ cr_msg_loop' = FALSE
    /\ cr_pc' = "returned"
    /\ UNCHANGED <<cr_cancel, cr_session, cr_heartbeat, cr_reply, cr_rounds, notRun>>

\* Client::run after discover_and_connect returned: self.cleanup().await takes
\* the session and cancels it (the heartbeat task breaks), then sleep starts
RunCleanup ==
    /\ cr_pc = "returned"
    /\ cr_session' = FALSE
    /\ cr_heartbeat' = FALSE
    /\ cr_pc' = "sleep"
    /\ UNCHANGED <<cr_cancel, cr_msg_loop, cr_reply, cr_rounds, notRun>>

\* sleep(1 s) is over: next iteration of the loop; select! sees the cancelled
\* token or starts discover_and_connect again
RunSleepDone ==
    /\ cr_pc = "sleep"
    /\ IF cr_cancel
       THEN cr_pc' = "stopped" /\ UNCHANGED cr_rounds
       ELSE /\ cr_rounds < MaxRunRounds
            /\ cr_pc' = "discover"
            /\ cr_rounds' = cr_rounds + 1
    /\ UNCHANGED <<cr_cancel, cr_session, cr_heartbeat, cr_msg_loop, cr_reply, notRun>>

\* Client::shutdown: cancel.cancel(); the session token is a child token, so
\* the heartbeat task of a stored session breaks
RunShutdown ==
    /\ ~cr_cancel
    /\ cr_cancel' = TRUE
    /\ cr_heartbeat' = FALSE
    /\ UNCHANGED <<cr_pc, cr_session, cr_msg_loop, cr_reply, cr_rounds, notRun>>

\* Client::run, select! takes the cancelled() branch: discover_and_connect is
\* dropped where it stands and the loop breaks (cleanup is not called)
RunBreak ==
    /\ cr_cancel
    /\ cr_pc \in {"discover", "connect", "handshake", "session"}
    /\ cr_msg_loop' = FALSE
    /\ cr_pc' = "stopped"
    /\ UNCHANGED <<cr_cancel, cr_session, cr_heartbeat, cr_reply, cr_rounds, notRun>>

RunNext ==
    \/ \E ok \in BOOLEAN : RunDiscover(ok)
    \/ \E ok \in BOOLEAN : RunConnect(ok)
    \/ \E reply \in Replies : RunHandshake(reply)
    \/ RunMessageLoopEnds
    \/ RunCleanup
    \/ RunSleepDone
    \/ RunShutdown
    \/ RunBreak

(***************************************************************************)
(* Packets of the client pipelines: RecordPipeline::run and                *)
(* PlaybackPipeline::run (app/client/pipeline.rs)                          *)
(***************************************************************************)
\* Bounds of the packet model.
MaxRecFrames == 4   \* PCM frames captured in one run
MaxOpusLen   == 3   \* length of an encoded frame
MaxPlaySeq   == 2   \* packets 0..MaxPlaySeq arrive, each at most once
FarSeq       == 30  \* one more packet, whose seq lies far ahead
MaxPlayTicks == 4   \* frame durations the clock advances

FRAME_SIZE    == 320      \* AudioConfig::voice_16k
SAMPLE_RATE   == 16000
DROP_AHEAD_US == 500000   \* "too far in the future"

\* frame_duration_us
FrameDurationUs == (FRAME_SIZE * 1000000) \div SAMPLE_RATE

OpusLens == 1..MaxOpusLen
PlaySeqs == (0..MaxPlaySeq) \cup {FarSeq}

PktInit ==
    /\ rs_loop = "select"
    /\ rs_frames = 0
    /\ rs_sent = <<>>
    /\ pb_chan = <<>>
    /\ pb_jitter = <<>>
    /\ pb_start_time = 0
    /\ pb_now = FrameDurationUs
    /\ pb_stop = FALSE
    /\ pb_arrived = {}
    /\ pb_played = <<>>

recVarsRest == <<pb_chan, pb_jitter, pb_start_time, pb_now, pb_stop, pb_arrived, pb_played>>
pbVarsRest  == <<rs_loop, rs_frames, rs_sent>>

\* RecordPipeline::run, lines 153-164: a PCM frame arrives, is encoded and the
\* packet is built and handed to socket.send (whose result is ignored)
RecordFrame(encode_ok, len) ==
    /\ rs_loop = "select"
    /\ rs_frames < MaxRecFrames
    /\ rs_frames' = rs_frames + 1
    /\ rs_sent' = IF encode_ok
                  THEN Append(rs_sent, [seq |-> 0, timestamp |-> 0, data |-> len])
                  ELSE rs_sent
    /\ UNCHANGED <<rs_loop, recVarsRest, notPkt>>

\* lines 152 and 165-168: the token is cancelled or the capture thread is gone
RecordLoopEnds ==
    /\ rs_loop = "select"
    /\ rs_loop' = "done"
    /\ UNCHANGED <<rs_frames, rs_sent, recVarsRest, notPkt>>

\* PlaybackPipeline::run, lines 228-247: the receive task forwards a datagram
PlaybackRecv(seq) ==
    /\ seq \notin pb_arrived
    /\ Len(pb_chan) < PLAYBACK_CHANNEL
    /\ pb_arrived' = pb_arrived \cup {seq}
    /\ pb_chan' = Append(pb_chan, seq)
    /\ UNCHANGED <<pb_jitter, pb_start_time, pb_now, pb_stop, pb_played, pbVarsRest, notPkt>>

\* lines 269-298: one iteration of the playback loop that has a packet at hand.
\* The channel is drained to the back of the deque; the front packet is played
\* when its time has come, dropped when it lies too far ahead, left otherwise.
PlaybackLoopIter ==
    LET q      == pb_jitter \o pb_chan
        start  == IF pb_start_time = 0 THEN pb_now ELSE pb_start_time
        target == start + Head(q) * FrameDurationUs
    IN /\ ~pb_stop
       /\ q # <<>>
       /\ pb_chan # <<>> \/ pb_start_time = 0 \/ pb_now >= target
             \/ target - pb_now > DROP_AHEAD_US
       /\ pb_chan' = <<>>
       /\ pb_start_time' = start
       /\ IF pb_now >= target
          THEN pb_jitter' = Tail(q) /\ pb_played' = Append(pb_played, Head(q))
          ELSE IF target - pb_now > DROP_AHEAD_US
          THEN pb_jitter' = Tail(q) /\ UNCHANGED pb_played
          ELSE pb_jitter' = q /\ UNCHANGED pb_played
       /\ UNCHANGED <<pb_now, pb_stop, pb_arrived, pbVarsRest, notPkt>>

\* the clock read by now_us() advances by one frame duration
PlaybackTick ==
    /\ pb_now < (MaxPlayTicks + 1) * FrameDurationUs
    /\ pb_now' = pb_now + FrameDurationUs
    /\ UNCHANGED <<pb_chan, pb_jitter, pb_start_time, pb_stop, pb_arrived, pb_played,
                   pbVarsRest, notPkt>>

\* PipelineHandle::stop sets stop_flag: the while loop ends
PlaybackStop ==
    /\ ~pb_stop
    /\ pb_stop' = TRUE
    /\ UNCHANGED <<pb_chan, pb_jitter, pb_start_time, pb_now, pb_arrived, pb_played,
                   pbVarsRest, notPkt>>

RecordStreamNext ==
    \/ \E encode_ok \in BOOLEAN, len \in OpusLens : RecordFrame(encode_ok, len)
    \/ RecordLoopEnds

PlaybackNext ==
    \/ \E seq \in PlaySeqs : PlaybackRecv(seq)
    \/ PlaybackLoopIter
    \/ PlaybackTick
    \/ PlaybackStop

(***************************************************************************)
(* AudioBus::register and AudioBus::unregister called from the connection  *)
(* tasks, one DashMap operation at a time (app/server/audio_bus.rs)        *)
(***************************************************************************)
\* Bound of the registry model.
MaxRegCalls == 3    \* register / unregister calls in one run

\* the connection tasks that call the bus, and the addresses they name
RegTasks == {1, 2}
RegAddrs == {<<1, 1>>, <<1, 2>>}

NoRegCall == [pc |-> "idle", op |-> "none", addr |-> <<0, 0>>, id |-> 0]

\* AudioBus::new
RegInit ==
    /\ ab_subscribers = [a \in RegAddrs |-> 0]
    /\ ab_addr_to_id = [a \in RegAddrs |-> 0]
    /\ ab_next_id = 1
    /\ ab_calls = [t \in RegTasks |-> NoRegCall]
    /\ ab_last = NoRegCall
    /\ ab_count = 0

\* register, lines 118-124: next_id.fetch_add and subscribers.insert
RegisterInsertSubscriber(t, addr) ==
    /\ ab_calls[t].pc = "idle"
    /\ ab_count < MaxRegCalls
    /\ ab_count' = ab_count + 1
    /\ ab_next_id' = ab_next_id + 1
    /\ ab_subscribers' = [ab_subscribers EXCEPT ![addr] = ab_next_id]
    /\ ab_calls' = [ab_calls EXCEPT ![t] = [pc |-> "insert_id", op |-> "register",
                                            addr |-> addr, id |-> ab_next_id]]
    /\ UNCHANGED <<ab_addr_to_id, ab_last, notReg>>

\* register, lines 125-127: addr_to_id.insert, return
RegisterInsertId(t) ==
    /\ ab_calls[t].pc = "insert_id"
    /\ ab_addr_to_id' = [ab_addr_to_id EXCEPT ![ab_calls[t].addr] = ab_calls[t].id]
    /\ ab_last' = [ab_calls[t] EXCEPT !.pc = "idle"]
    /\ ab_calls' = [ab_calls EXCEPT ![t] = NoRegCall]
    /\ UNCHANGED <<ab_subscribers, ab_next_id, ab_count, notReg>>

\* unregister, line 132: subscribers.remove; with None the call returns
UnregisterRemoveSubscriber(t, addr) ==
    /\ ab_calls[t].pc = "idle"
    /\ ab_count < MaxRegCalls
    /\ ab_count' = ab_count + 1
    /\ ab_subscribers' = [ab_subscribers EXCEPT ![addr] = 0]
    /\ LET call == [pc |-> "remove_id", op |-> "unregister", addr |-> addr,
                    id |-> ab_subscribers[addr]]
       IN IF ab_subscribers[addr] # 0
          THEN ab_calls' = [ab_calls EXCEPT ![t] = call] /\ UNCHANGED ab_last
          ELSE ab_last' = [call EXCEPT !.pc = "idle"] /\ UNCHANGED ab_calls
    /\ UNCHANGED <<ab_addr_to_id, ab_next_id, notReg>>

\* unregister, lines 133-134: addr_to_id.remove, return
UnregisterRemoveId(t) ==
    /\ ab_calls[t].pc = "remove_id"
    /\ ab_addr_to_id' = [ab_addr_to_id EXCEPT ![ab_calls[t].addr] = 0]
    /\ ab_last' = [ab_calls[t] EXCEPT !.pc = "idle"]
    /\ ab_calls' = [ab_calls EXCEPT ![t] = NoRegCall]
    /\ UNCHANGED <<ab_subscribers, ab_next_id, ab_count, notReg>>

RegNext ==
    \/ \E t \in RegTasks, addr \in RegAddrs : RegisterInsertSubscriber(t, addr)
    \/ \E t \in RegTasks : RegisterInsertId(t)
    \/ \E t \in RegTasks, addr \in RegAddrs : UnregisterRemoveSubscriber(t, addr)
    \/ \E t \in RegTasks : UnregisterRemoveId(t)

(***************************************************************************)
(* Event bus: a broadcast channel, EventSubscription::recv and             *)
(* run_event_loop (net/event.rs)                                           *)
(***************************************************************************)
\* Bounds of the event model.
MaxEvents     == 4   \* events published in one run
EventCapacity == 2   \* capacity passed to ServerEventBus::new

\* ServerEventBus::new, subscribe, and run_event_loop entering its first recv
EvInit ==
    /\ ev_tail = 0
    /\ ev_closed = FALSE
    /\ ev_next = 0
    /\ ev_pc = "recv"
    /\ ev_lagged = 0
    /\ ev_handled = <<>>

\* ServerEventBus::publish / publish_to: tx.send
EventPublish ==
    /\ ~ev_closed
    /\ ev_tail < MaxEvents
    /\ ev_tail' = ev_tail + 1
    /\ UNCHANGED <<ev_closed, ev_next, ev_pc, ev_lagged, ev_handled, notEv>>

\* the bus is dropped, and with it the channel's only Sender
EventBusDropped ==
    /\ ~ev_closed
    /\ ev_closed' = TRUE
    /\ UNCHANGED <<ev_tail, ev_next, ev_pc, ev_lagged, ev_handled, notEv>>

\* broadcast::Receiver::recv when it is ready: Lagged when events behind the
\* oldest retained one were missed, otherwise the next event, Closed when
\* nothing is left and the Sender is gone
ReceiverRecv ==
    LET oldest == Max(ev_tail - EventCapacity, 0)
    IN IF ev_next < oldest THEN "Lagged"
       ELSE IF ev_next < ev_tail THEN "Ok"
       ELSE IF ev_closed THEN "Closed"
       ELSE "Pending"

\* mutation of SubscriptionRecv: a Lagged signal ends the subscription
SubscriptionRecv_LagEnds(result) ==
    IF result = "Ok" THEN "Some" ELSE "None"

\* EventSubscription::recv, the match on receiver.recv(): return Some(event),
\* call recv again, or return None
SubscriptionRecv(result) ==
    IF result = "Ok" THEN "Some"
    ELSE IF result = "Lagged" THEN "Again"
    ELSE "None"

\* one receiver.recv() inside EventSubscription::recv, called by run_event_loop
EventRecv ==
    /\ ev_pc = "recv"
    /\ ReceiverRecv # "Pending"
    /\ ev_next' = IF ReceiverRecv = "Lagged" THEN Max(ev_tail - EventCapacity, 0)
                  ELSE IF ReceiverRecv = "Ok" THEN ev_next + 1
                  ELSE ev_next
    /\ ev_lagged' = IF ReceiverRecv = "Lagged" THEN ev_lagged + 1 ELSE ev_lagged
    /\ ev_pc' = IF SubscriptionRecv(ReceiverRecv) = "Some" THEN "handle"
                ELSE IF SubscriptionRecv(ReceiverRecv) = "Again" THEN "recv"
                ELSE "ended"
    /\ UNCHANGED <<ev_tail, ev_closed, ev_handled, notEv>>

\* run_event_loop: handler.handle(event).await, then the next recv
EventHandle ==
    /\ ev_pc = "handle"
    /\ ev_handled' = Append(ev_handled, ev_next)
    /\ ev_pc' = "recv"
    /\ UNCHANGED <<ev_tail, ev_closed, ev_next, ev_lagged, notEv>>

EvNext ==
    \/ EventPublish
    \/ EventBusDropped
    \/ EventRecv
    \/ EventHandle

\* the event loop keeps receiving and handling while it can
EvFairness == WF_vars(EventRecv) /\ WF_vars(EventHandle)

(***************************************************************************)
(* PlaybackPipeline::run when the player is slower than the network: the   *)
(* receive task, the PCM channel and the playback loop                     *)
(* (app/client/pipeline.rs)                                                *)
(***************************************************************************)
\* mpsc::channel::<AudioPacket>(128), the tasks at their first await
PoInit ==
    /\ po_queue = 0
    /\ po_rx = "recv"
    /\ po_loop = "iter"

\* lines 230-236: socket.recv returned a datagram; the task goes on to send it
PlaybackRecvDatagram ==
    /\ po_rx = "recv"
    /\ po_rx' = "send"
    /\ UNCHANGED <<po_queue, po_loop, notPo>>

\* line 237: pcm_tx.send(packet).await completes once the channel has room
PlaybackSend ==
    /\ po_rx = "send"
    /\ po_queue < PLAYBACK_CHANNEL
    /\ po_queue' = po_queue + 1
    /\ po_rx' = "recv"
    /\ UNCHANGED <<po_loop, notPo>>

\* lines 269-297: one iteration of the playback loop: try_recv empties the
\* channel into the deque, then the front packet is written to the player
\* (play) or the iteration drops it or sleeps
PlaybackDrain(play) ==
    /\ po_loop = "iter"
    /\ po_queue' = 0
    /\ po_loop' = IF play THEN "write" ELSE "iter"
    /\ UNCHANGED <<po_rx, notPo>>

\* line 283: player.write, a blocking call, returns
PlaybackWriteDone ==
    /\ po_loop = "write"
    /\ po_loop' = "iter"
    /\ UNCHANGED <<po_queue, po_rx, notPo>>

PoNext ==
    \/ PlaybackRecvDatagram
    \/ PlaybackSend
    \/ \E play \in BOOLEAN : PlaybackDrain(play)
    \/ PlaybackWriteDone

(***************************************************************************)
(* Recordings of one session on the server: Server::start_record and       *)
(* stop_record, RecorderStream::run and WavWriter                          *)
(* (app/server/mod.rs, session.rs, stream.rs, audio/wav.rs)                *)
(***************************************************************************)
\* Bounds of the recording model.
MaxRecorders  == 2   \* RecorderStream tasks spawned in one run
MaxWavSamples == 3   \* samples one recorder writes
MaxDecoded    == 2   \* samples decoded from one frame

RecIds == 1..MaxRecorders

\* a task that was not spawned; data_size and header are the WavWriter's
\* field and the value finalize wrote, samples and finalized are history
NoRecorder ==
    [pc |-> "none", cancelled |-> FALSE, data_size |-> 0, samples |-> 0,
     finalized |-> 0, header |-> 0]

\* a session without recording, and no file
WrInit ==
    /\ wr_tasks = [r \in RecIds |-> NoRecorder]
    /\ wr_active = 0
    /\ wr_session_cancel = FALSE
    /\ wr_bus_closed = FALSE
    /\ wr_spawned = 0
    /\ wav_creator = 0
    /\ wav_header = 0

\* StreamHandle::stop on the handle held in ActiveStreams.recorder
StopRecorderHandle(tasks, h) ==
    IF h = 0 THEN tasks ELSE [tasks EXCEPT ![h].cancelled = TRUE]

\* mutation of WavWriteSamples: data_size counts one byte per sample
WavWriteSamples_OneByte(data_size, n) == data_size + n

\* WavWriter::write_samples: data_size += 2 for each sample
WavWriteSamples(data_size, n) == data_size + 2 * n

\* Server::start_record: RecorderStream::spawn with a child token of the
\* session's, then Session::start_recording, which stops the previous handle
StartRecord ==
    /\ wr_spawned < MaxRecorders
    /\ LET r == wr_spawned + 1
       IN /\ wr_tasks' = StopRecorderHandle(
                             [wr_tasks EXCEPT ![r] = [NoRecorder EXCEPT
                                                       !.pc = "spawned",
                                                       !.cancelled = wr_session_cancel]],
                             wr_active)
          /\ wr_active' = r
    /\ wr_spawned' = wr_spawned + 1
    /\ UNCHANGED <<wr_session_cancel, wr_bus_closed, wav_creator, wav_header, notWr>>

\* Server::stop_record: Session::stop_recording takes the handle and stops it
StopRecord ==
    /\ wr_active # 0
    /\ wr_tasks' = StopRecorderHandle(wr_tasks, wr_active)
    /\ wr_active' = 0
    /\ UNCHANGED <<wr_session_cancel, wr_bus_closed, wr_spawned, wav_creator, wav_header,
                   notWr>>

\* Session::cleanup: the session token is cancelled, and every child with it
SessionCleanup ==
    /\ ~wr_session_cancel
    /\ wr_session_cancel' = TRUE
    /\ wr_tasks' = [r \in RecIds |->
                      IF wr_tasks[r].pc = "none" THEN wr_tasks[r]
                      ELSE [wr_tasks[r] EXCEPT !.cancelled = TRUE]]
    /\ wr_active' = 0
    /\ UNCHANGED <<wr_bus_closed, wr_spawned, wav_creator, wav_header, notWr>>

\* the AudioBus is dropped: bus_rx.recv returns Closed once nothing is left
AudioBusClosed ==
    /\ ~wr_bus_closed
    /\ wr_bus_closed' = TRUE
    /\ UNCHANGED <<wr_tasks, wr_active, wr_session_cancel, wr_spawned, wav_creator,
                   wav_header, notWr>>

\* RecorderStream::run, lines 178-179: WavWriter::create truncates the file and
\* writes the placeholder header, OpusCodec::new; either may fail and end run
RecorderOpen(r, create_ok, codec_ok) ==
    /\ wr_tasks[r].pc = "spawned"
    /\ wr_tasks' = [wr_tasks EXCEPT ![r].pc = IF create_ok /\ codec_ok THEN "loop"
                                              ELSE "failed"]
    /\ wav_creator' = IF create_ok THEN r ELSE wav_creator
    /\ wav_header' = IF create_ok THEN 0 ELSE wav_header
    /\ UNCHANGED <<wr_active, wr_session_cancel, wr_bus_closed, wr_spawned, notWr>>

\* lines 190-204: select! takes the recv branch with a frame; n samples are
\* decoded and written (0: the frame is filtered out or does not decode).
\* A Lagged result changes nothing and the loop goes on.
RecorderFrame(r, n) ==
    /\ wr_tasks[r].pc = "loop"
    /\ ~wr_bus_closed
    /\ wr_tasks[r].samples + n <= MaxWavSamples
    /\ wr_tasks' = [wr_tasks EXCEPT
                      ![r].data_size = WavWriteSamples(@, n),
                      ![r].samples = @ + n]
    /\ UNCHANGED <<wr_active, wr_session_cancel, wr_bus_closed, wr_spawned, wav_creator,
                   wav_header, notWr>>

\* lines 189, 208-210 and 217: the token is cancelled or the bus is closed; the loop
\* breaks and WavWriter::finalize writes the header with data_size
RecorderFinalize(r) ==
    /\ wr_tasks[r].pc = "loop"
    /\ wr_tasks[r].cancelled \/ wr_bus_closed
    /\ wr_tasks' = [wr_tasks EXCEPT ![r].pc = "done",
                                    ![r].finalized = @ + 1,
                                    ![r].header = wr_tasks[r].data_size]
    /\ wav_header' = wr_tasks[r].data_size
    /\ UNCHANGED <<wr_active, wr_session_cancel, wr_bus_closed, wr_spawned, wav_creator,
                   notWr>>

WrNext ==
    \/ StartRecord
    \/ StopRecord
    \/ SessionCleanup
    \/ AudioBusClosed
    \/ \E r \in RecIds, create_ok \in BOOLEAN, codec_ok \in BOOLEAN :
          RecorderOpen(r, create_ok, codec_ok)
    \/ \E r \in RecIds, n \in 0..MaxDecoded : RecorderFrame(r, n)
    \/ \E r \in RecIds : RecorderFinalize(r)

\* the runtime runs every spawned task, and a select! whose cancelled branch
\* stays ready eventually takes it
WrFairness ==
    \A r \in RecIds :
        /\ WF_vars(\E create_ok \in BOOLEAN, codec_ok \in BOOLEAN :
                      RecorderOpen(r, create_ok, codec_ok))
        /\ WF_vars(RecorderFinalize(r))

(***************************************************************************)
(* Client::execute called while Client::run loses the connection: the      *)
(* RwLock around Client.session (app/client/mod.rs, session.rs)            *)
(***************************************************************************)
\* Bounds of the execute model.
MaxExecCallers == 2   \* tasks that call Client::execute
MaxExecRounds  == 2   \* sessions established in one run

ExecCallers == 1..MaxExecCallers

\* pc: "idle" | "sending" | "waiting" | "returned"; from "sending" until the
\* call returns it holds a read guard of Client.session
NoExecCall == [pc |-> "idle", chan |-> "empty", result |-> "none"]

\* the read guards of Client.session that are held
ReadGuards == {c \in ExecCallers : ex_calls[c].pc \in {"sending", "waiting"}}

\* a session is established and its message loop runs; nobody has called yet
ExInit ==
    /\ ex_run = "session"
    /\ ex_session = TRUE
    /\ ex_conn = "up"
    /\ ex_calls = [c \in ExecCallers |-> NoExecCall]
    /\ ex_rounds = 1

\* Client::execute, lines 396-401: session.read().await is granted while no
\* writer holds or waits for the lock; with None the call returns at once,
\* otherwise Session::execute registers the id and its one-shot channel
ExecuteStart(c) ==
    /\ ex_calls[c].pc = "idle"
    /\ ex_run # "cleanup"
    /\ ex_calls' = [ex_calls EXCEPT ![c] =
                      IF ex_session
                      THEN [NoExecCall EXCEPT !.pc = "sending"]
                      ELSE [NoExecCall EXCEPT !.pc = "returned", !.result = "NotConnected"]]
    /\ UNCHANGED <<ex_run, ex_session, ex_conn, ex_rounds, notEx>>

\* Session::execute, lines 150-152: conn.send of the RpcRequest; an error
\* returns from the call, which drops the read guard
ExecuteSend(c, ok) ==
    /\ ex_calls[c].pc = "sending"
    /\ ok \/ ex_conn = "lost"
    /\ ex_calls' = [ex_calls EXCEPT ![c] =
                      IF ok THEN [@ EXCEPT !.pc = "waiting"]
                      ELSE [@ EXCEPT !.pc = "returned", !.result = "SendError"]]
    /\ UNCHANGED <<ex_run, ex_session, ex_conn, ex_rounds, notEx>>

\* message_loop and handle_packet, RpcResponse arm: resolve_rpc sends the
\* result into the call's one-shot channel
ExecuteResponse(c) ==
    /\ ex_run = "session"
    /\ ex_conn = "up"
    /\ ex_calls[c].pc = "waiting"
    /\ ex_calls[c].chan = "empty"
    /\ ex_calls' = [ex_calls EXCEPT ![c].chan = "value"]
    /\ UNCHANGED <<ex_run, ex_session, ex_conn, ex_rounds, notEx>>

\* Session::execute, line 153: rx.await is ready; the call returns and the
\* read guard is dropped
ExecuteReturn(c) ==
    /\ ex_calls[c].pc = "waiting"
    /\ ex_calls[c].chan # "empty"
    /\ ex_calls' = [ex_calls EXCEPT ![c].pc = "returned",
                                    ![c].result = IF ex_calls[c].chan = "value"
                                                  THEN "Ok" ELSE "ChannelClosed"]
    /\ UNCHANGED <<ex_run, ex_session, ex_conn, ex_rounds, notEx>>

\* the connection is lost: message_loop returns an error, discover_and_connect
\* returns, and Client::run calls cleanup, which waits at session.write()
ConnectionLost ==
    /\ ex_run = "session"
    /\ ex_conn' = "lost"
    /\ ex_run' = "cleanup"
    /\ UNCHANGED <<ex_session, ex_calls, ex_rounds, notEx>>

\* Client::cleanup, lines 385-389: the write guard is granted once no read
\* guard is held; the session is taken and Session::cleanup cancels its token
\* and stops its pipelines; then Client::run sleeps
CleanupTakesSession ==
    /\ ex_run = "cleanup"
    /\ ReadGuards = {}
    /\ ex_session' = FALSE
    /\ ex_run' = "sleep"
    /\ UNCHANGED <<ex_conn, ex_calls, ex_rounds, notEx>>

\* Client::run, line 124: the one-second sleep ends and the loop starts over
ExecSleepDone ==
    /\ ex_run = "sleep"
    /\ ex_run' = "discover"
    /\ UNCHANGED <<ex_session, ex_conn, ex_calls, ex_rounds, notEx>>

\* discover_and_connect and handle_session, lines 131-182: a new session is
\* stored (session.write()) and its message loop starts
ExecReconnect ==
    /\ ex_run = "discover"
    /\ ex_rounds < MaxExecRounds
    /\ ReadGuards = {}
    /\ ex_session' = TRUE
    /\ ex_conn' = "up"
    /\ ex_run' = "session"
    /\ ex_rounds' = ex_rounds + 1
    /\ UNCHANGED <<ex_calls, notEx>>

\* the caller is done with the result and may call again
ExecuteAgain(c) ==
    /\ ex_calls[c].pc = "returned"
    /\ ex_calls' = [ex_calls EXCEPT ![c] = NoExecCall]
    /\ UNCHANGED <<ex_run, ex_session, ex_conn, ex_rounds, notEx>>

ExNext ==
    \/ \E c \in ExecCallers : ExecuteStart(c)
    \/ \E c \in ExecCallers, ok \in BOOLEAN : ExecuteSend(c, ok)
    \/ \E c \in ExecCallers : ExecuteResponse(c)
    \/ \E c \in ExecCallers : ExecuteReturn(c)
    \/ \E c \in ExecCallers : ExecuteAgain(c)
    \/ ConnectionLost
    \/ CleanupTakesSession
    \/ ExecSleepDone
    \/ ExecReconnect

\* the runtime runs every task that is able to go on: a send completes, a
\* ready receiver is polled, a lock that is free is granted, a sleep ends.
\* Nothing obliges the server to answer or the connection to break.
ExFairness ==
    /\ \A c \in ExecCallers :
          /\ WF_vars(\E ok \in BOOLEAN : ExecuteSend(c, ok))
          /\ WF_vars(ExecuteReturn(c))
    /\ WF_vars(CleanupTakesSession)
    /\ WF_vars(ExecSleepDone)

(***************************************************************************)
(* Specifications                                                          *)
(***************************************************************************)
AllInit == JBInit /\ RpcInit /\ CliInit /\ SrvInit /\ DiscInit /\ CoreInit /\ BusInit /\ ReqInit
           /\ NetInit /\ AppInit /\ RunInit /\ PktInit /\ RegInit /\ EvInit /\ PoInit /\ WrInit /\ ExInit

SpecJitter        == AllInit /\ [][JBNext]_vars
SpecJitterPushPop == AllInit /\ [][JBPushPopNext]_vars
\* the consumer keeps calling pop at a time past every timestamp
FairSpecJitterPushPop == SpecJitterPushPop /\ WF_vars(Pop(MaxTs))
SpecJitterStream  == AllInit /\ [][JBStreamNext]_vars
SpecJitterTiming  == AllInit /\ [][JBTimingNext]_vars
SpecJitterPaced   == AllInit /\ [][JBPacedNext]_vars
SpecRpc           == AllInit /\ [][RpcNext]_vars
FairSpecRpc       == SpecRpc /\ RpcFairness
SpecRpcZero       == AllInit /\ [][RpcZeroNext]_vars
SpecClient        == AllInit /\ [][CliNext]_vars
FairSpecClient    == SpecClient /\ CliFairness
SpecServer        == AllInit /\ [][SrvNext]_vars
SpecServerStreams == AllInit /\ [][SrvStreamsNext]_vars
SpecDiscovery     == AllInit /\ [][DiscNext]_vars
SpecCore          == AllInit /\ [][CoreNext]_vars
SpecBus           == AllInit /\ [][BusNext]_vars
SpecRequests      == AllInit /\ [][ReqNext]_vars
SpecNet           == AllInit /\ [][NetNext]_vars
SpecAppClient     == AllInit /\ [][AppNext]_vars
SpecClientRun     == AllInit /\ [][RunNext]_vars
SpecRecordStream  == AllInit /\ [][RecordStreamNext]_vars
SpecPlayback      == AllInit /\ [][PlaybackNext]_vars
SpecRegistry      == AllInit /\ [][RegNext]_vars
SpecEvents        == AllInit /\ [][EvNext]_vars
FairSpecEvents    == SpecEvents /\ EvFairness
SpecPlaybackOverload == AllInit /\ [][PoNext]_vars
SpecRecordings    == AllInit /\ [][WrNext]_vars
FairSpecRecordings == SpecRecordings /\ WrFairness
SpecExecute       == AllInit /\ [][ExNext]_vars
FairSpecExecute   == SpecExecute /\ ExFairness

(***************************************************************************)
(* Claims                                                                  *)
(***************************************************************************)

\* C1: every packet returned by pop has a timestamp strictly greater than the
\* timestamp of the packet pop returned before it.
C1_PopStrictlyIncreasing ==
    \A i \in 1..Len(popped) : i > 1 => popped[i] > popped[i - 1]


\* C2 (as stated): every call that completes does so with the CommandResult
\* delivered for its id, with Timeout, or with Cancelled, and with nothing else.
C2_ThreeOutcomes ==
    \A c \in Callers :
        calls[c].pc = "done" => calls[c].outcome \in CommandResults \cup {"Timeout", "Cancelled"}

\* C2 (amended): every call that completes does so with exactly one of the single
\* CommandResult delivered for its id, Timeout, Cancelled, or Internal, and with
\* Internal exactly when send_fn returned an error.
C2_FourOutcomes ==
    \A c \in Callers :
        /\ Len(calls[c].delivered) <= 1
        /\ calls[c].pc = "done" =>
              /\ calls[c].outcome \in RpcCompleted
              /\ calls[c].outcome = "Internal" <=> calls[c].send_failed
              /\ calls[c].outcome \in CommandResults =>
                    calls[c].delivered = <<calls[c].outcome>>
        /\ calls[c].pc # "done" => calls[c].outcome = "none"

\* C2 witness: one call ended with Internal after a failed send, another with the
\* result delivered for its id.
C2_Witness ==
    \E c, d \in Callers :
        /\ calls[c].pc = "done" /\ calls[c].outcome = "Internal"
        /\ calls[d].pc = "done" /\ calls[d].outcome \in CommandResults

\* C3: once the session is cancelled, every call that is still pending on it
\* eventually completes with Cancelled.
C3_PendingCallsCancelled ==
    \A c \in Callers :
        (sess_cancelled /\ calls[c].pc = "waiting" /\ calls[c].chan = "empty")
            ~> (calls[c].outcome = "Cancelled")

\* C4: two pipelines of the same kind never run concurrently.
C4_AtMostOnePerKind ==
    \A p, q \in PipeIds :
        (p # q /\ Running(p) /\ Running(q)) => pipes[p].kind # pipes[q].kind

\* C5: once the session token above a playback pipeline is cancelled, the
\* pipeline's playback loop and its UDP receive task both eventually terminate.
C5_PlaybackStopsOnParentCancel ==
    \A p \in PipeIds :
        (pipes[p].kind = "playback" /\ csess_cancelled)
            ~> (pipes[p].loop = "done" /\ pipes[p].aux = "done")

\* C6: once the session token above a record pipeline is cancelled, the
\* pipeline's loop exits, the PCM channel is closed and the capture thread
\* exits; and a pipeline whose loop has exited sends no further audio packet.
C6_RecordStopsOnSessionCancel ==
    /\ \A p \in PipeIds :
          (pipes[p].kind = "record" /\ csess_cancelled)
              ~> (pipes[p].loop = "done" /\ pipes[p].rx_closed /\ pipes[p].aux = "done")
    /\ [][\A p \in PipeIds :
              pipes[p].loop = "done" => pipes'[p].sent = pipes[p].sent]_vars

\* a record pipeline that sent audio, whose handle was never stopped, and that
\* shut down through the session token and the closed channel
C6_Witness ==
    \E p \in PipeIds :
        /\ pipes[p].kind = "record" /\ csess_cancelled
        /\ ~pipes[p].stop_flag /\ ~pipes[p].cancelled
        /\ pipes[p].sent >= 1
        /\ pipes[p].loop = "done" /\ pipes[p].rx_closed
        /\ pipes[p].aux = "done" /\ pipes[p].aux_exit = "closed"

\* C7: ServerHello is sent and a session is registered (session manager, audio
\* bus) only for a connection whose first message is a ClientHello with the
\* server's version and the expected server-auth; for any other first message
\* the handler has failed with no ServerHello sent and nothing registered.
C7_HandshakeGate ==
    \A c \in Conns :
        LET m == conns[c].msg
            valid == m.type = "ClientHello" /\ m.version = "1.0.0" /\ m.auth = "xiao-server"
            registered == \/ conns[c].reg_sessions \/ conns[c].reg_bus \/ c \in sessions
                          \/ \E a \in AudioAddrs : udp_to_tcp[a] = c
        IN /\ conns[c].hello_sent => valid
           /\ registered => valid /\ conns[c].hello_sent
           /\ (m.type # "none" /\ ~valid) =>
                 /\ conns[c].pc = "closed" /\ conns[c].result = "Err"
                 /\ ~conns[c].hello_sent /\ ~registered
                 /\ conns[c].audio_addr \notin subscribers

\* one connection was accepted and is registered everywhere, another presented the
\* right version with the wrong auth string and was rejected
C7_Witness ==
    \E c, d \in Conns :
        /\ conns[c].hello_sent /\ c \in sessions /\ conns[c].reg_bus
        /\ conns[c].audio_addr \in subscribers
        /\ conns[d].msg.type = "ClientHello" /\ conns[d].msg.version = "1.0.0"
        /\ conns[d].msg.auth # "xiao-server"
        /\ conns[d].pc = "closed" /\ conns[d].result = "Err"

\* C8: the response from which the discovery client returned an endpoint ends
\* with 32 bytes equal to HMAC-SHA256(secret, all the bytes before them), those
\* bytes being the echoed request, the address and the port.
C8_AcceptedResponseAuthenticated ==
    dcli.pc = "returned" =>
        LET r == dcli.accepted
        IN /\ Len(r) > HMAC_LEN
           /\ SubSeq(r, Len(r) - HMAC_LEN + 1, Len(r))
                  = HmacSha256("your-secret-key", SubSeq(r, 1, Len(r) - HMAC_LEN))

\* C9: when a server that holds the client's secret, can build and send a
\* response, and whose clock is within 30 s of the request's timestamp handles
\* the client's request, it answers; and a client that returned holds the
\* server's IPv4 address and port.
C9_HappyPath ==
    (/\ dsrv_last.from = "client"
     /\ dsrv.secret = "your-secret-key"
     /\ dsrv_last.local_ip = "v4" /\ dsrv_last.send_ok
     /\ AbsDiff(dsrv_last.now, dcli.timestamp) <= 30)
        => /\ dsrv_last.responded
           /\ dcli.pc = "returned" => (dcli.ip = <<192, 168, 1, 10>> /\ dcli.port = dsrv.ws_port)

\* C10 (as stated): the datagram handled last was answered exactly when it is
\* 28 bytes long and its timestamp is within 30 s of the server's clock.
C10_RespondsIffValid ==
    dsrv_last.from # "none" =>
        (dsrv_last.responded <=>
            /\ Len(dsrv_last.data) = 28
            /\ AbsDiff(dsrv_last.now, FromBE(Vals(SubSeq(dsrv_last.data, 21, 28)))) <= 30)

\* C10 (amended): the datagram handled last was answered exactly when it is 28
\* bytes long, its timestamp is within 30 s of the server's clock in either
\* direction, local_ip() gave an IPv4 address and send_to succeeded; the answer
\* is then the 66-byte response that echoes it.
C10_RespondsIffValidAndAble ==
    dsrv_last.from # "none" =>
        /\ dsrv_last.responded <=>
              /\ Len(dsrv_last.data) = 28
              /\ AbsDiff(dsrv_last.now, FromBE(Vals(SubSeq(dsrv_last.data, 21, 28)))) <= 30
              /\ dsrv_last.local_ip = "v4"
              /\ dsrv_last.send_ok
        /\ dsrv_last.responded =>
              /\ Len(dsrv_last.response) = 66
              /\ SubSeq(dsrv_last.response, 1, 28) = dsrv_last.data
        /\ ~dsrv_last.responded => dsrv_last.response = <<>>

\* a datagram exactly 30 s old was answered
C10_Witness ==
    /\ dsrv_last.responded
    /\ Len(dsrv_last.data) = 28
    /\ dsrv_last.now - FromBE(Vals(SubSeq(dsrv_last.data, 21, 28))) = 30

\* C11: while the control loop waits in recv for a frame that has not arrived,
\* a caller that wants to send is not kept out by the loop: the connection's
\* lock is not held by the waiting reader.
C11_SendNotBlockedByRecv ==
    \A c \in CoreCallers :
        (core_calls[c].pc = "want_lock" /\ core_loop = "recv" /\ core_inbox = <<>>)
            => core_ctl.by # "loop"

\* C12: in every reachable state udp_to_tcp maps an audio address u to a TCP
\* address t exactly when sessions holds a session with tcp_addr t and
\* audio_addr u.
C12_MapsConsistent ==
    \A a \in AudioAddrs, c \in Conns :
        udp_to_tcp[a] = c <=> (c \in sessions /\ conns[c].audio_addr = a)

\* C13: once a session's message loop has ended, for whatever reason, and the
\* connection handler has returned, the session token is cancelled, no stream of
\* the session is still running, the session manager no longer holds the
\* session, and the audio bus holds no registration made by it.
C13_CleanupAfterLoop ==
    \A c \in Conns :
        (conns[c].pc = "closed" /\ conns[c].reg_bus) =>
            /\ srv_cancelled \/ conns[c].cancelled
            /\ \A kind \in {"recorder", "playback"} :
                   conns[c][kind] = "held" => (srv_cancelled \/ conns[c].cancelled)
            /\ c \notin sessions
            /\ \A a \in AudioAddrs : udp_to_tcp[a] # c
            /\ conns[c].audio_addr \in subscribers =>
                   \E d \in Conns \ {c} :
                       /\ conns[d].audio_addr = conns[c].audio_addr
                       /\ conns[d].pc \in {"session_loop", "unregister_bus"}

\* a session's loop ended with an error while the server was not shutting down
\* and its handler has returned; a start_record that had looked the session up
\* before the cleanup stored its handle afterwards, on the cancelled token
C13_Witness ==
    \E c \in Conns :
        /\ conns[c].pc = "closed" /\ conns[c].reg_bus /\ conns[c].result = "Err"
        /\ ~srv_cancelled /\ conns[c].cancelled
        /\ conns[c].recorder = "held" /\ conns[c].playback = "none"

\* C14: whenever the audio bus sends a frame with source address s to the
\* subscriber address t, s was a registered subscriber when the datagram was
\* received and s differs from t.
C14_DeliveryFiltered ==
    bus_delivered # [source |-> <<0, 0>>, to |-> <<0, 0>>, registered |-> FALSE] =>
        bus_delivered.registered /\ bus_delivered.source # bus_delivered.to

\* a frame of a registered sender is being broadcast: the sender's own entry was
\* visited and skipped, another subscriber was sent the frame, and a datagram of
\* an unregistered sender was dropped before
C14_Witness ==
    /\ bus_cur # NoFrame
    /\ bus_cur.source \in bus_visited
    /\ bus_delivered.source = bus_cur.source /\ bus_delivered.to # bus_cur.source
    /\ bus_delivered.to \in bus_visited
    /\ bus_received = 2 /\ bus_channel = <<>>

\* C15: once a call has finished, by a result, a timeout, a cancellation or a
\* failed send, or its future was dropped while it waited, the pending table has
\* no entry for the id of that call.
C15_NoEntryAfterCall ==
    \A c \in Callers :
        calls[c].pc \in {"done", "dropped"} => calls[c].id \notin pending

\* one call ended with Timeout and the other was dropped while it waited
C15_Witness ==
    \E c, d \in Callers :
        /\ calls[c].pc = "done" /\ calls[c].outcome = "Timeout"
        /\ calls[d].pc = "dropped" /\ calls[d].id # 0

\* C16: every id the RpcManager allocates is greater than every id it allocated
\* before, so the ids are pairwise distinct, also when the earlier calls are
\* still pending.
C16_IdsIncrease ==
    [][\A c \in Callers :
          (calls[c].pc = "idle" /\ calls'[c].pc # "idle") =>
              /\ calls'[c].id >= 1
              /\ \A d \in Callers \ {c} : calls[d].id # 0 => calls'[c].id > calls[d].id]_vars

\* two calls are pending at the same time, each under its own id
C16_Witness ==
    /\ \A c \in Callers : calls[c].pc \in {"sending", "waiting"} /\ calls[c].id \in pending
    /\ Cardinality({calls[c].id : c \in Callers}) = MaxCalls

\* C17: a step that delivers a result to a call delivers it to that call only:
\* the call's id was pending and is the one entry that leaves the table, and no
\* other call changes; a call that completed with a result completed with the
\* one result delivered under its id.
C17_RoutedById ==
    [][\A c \in Callers :
          calls'[c].delivered # calls[c].delivered =>
              /\ calls[c].id \in pending
              /\ pending' = pending \ {calls[c].id}
              /\ calls'[c].chan = calls'[c].delivered[1]
              /\ Len(calls'[c].delivered) = 1
              /\ \A d \in Callers \ {c} : calls'[d] = calls[d]]_vars

\* the call issued second received its result while the call issued first is
\* still waiting and a third has timed out (MaxCalls permitting): out of order
C17_Witness ==
    \E c, d \in Callers :
        /\ calls[c].id < calls[d].id /\ calls[c].id # 0
        /\ calls[c].pc = "waiting" /\ calls[c].chan = "empty" /\ calls[c].id \in pending
        /\ calls[d].pc = "done" /\ calls[d].outcome = "Shell"
        /\ calls[d].delivered = <<"Shell">>

\* C20: a call issued with timeout_ms = 0 never completes with anything but
\* Timeout once its request was sent, whenever its response arrives.
C20_ZeroTimeoutIsTimeout ==
    \A c \in Callers :
        (calls[c].pc = "done" /\ calls[c].timeout = [some |-> TRUE, ms |-> 0]
            /\ ~calls[c].send_failed)
                => calls[c].outcome = "Timeout"

\* C18: a request never gets more than one RpcResponse, every response carries
\* the id of its request, and once the task of the request has ended, or
\* handle_rpc_request has returned for a request that is not run_async, exactly
\* one response was sent.
C18_OneResponsePerRequest ==
    \A r \in Requests :
        /\ Len(reqs[r].responses) <= 1
        /\ \A i \in 1..Len(reqs[r].responses) : reqs[r].responses[i].id = reqs[r].id
        /\ reqs[r].pc = "done" => Len(reqs[r].responses) = 1
        /\ (reqs[r].returned /\ ~reqs[r].run_async) => Len(reqs[r].responses) = 1

\* a run_async request was answered after its timer elapsed and a request that
\* is not run_async was answered with the result of its command
C18_Witness ==
    \E r, q \in Requests :
        /\ reqs[r].pc = "done" /\ reqs[r].run_async /\ reqs[r].on_timeout
        /\ reqs[q].pc = "done" /\ ~reqs[q].run_async
        /\ reqs[q].responses = <<[id |-> reqs[q].id, result |-> ShellResult]>>

\* C19: a Shell request whose command was still running when its timeout
\* elapsed is answered with CommandResult::Error of code -408 and a message that
\* contains "timed out", and the child is killed.
C19_TimeoutAnswer ==
    \A r \in Requests :
        (reqs[r].pc = "done" /\ reqs[r].command = "Shell" /\ reqs[r].on_timeout) =>
            /\ Len(reqs[r].responses) = 1
            /\ reqs[r].responses[1].result.kind = "Error"
            /\ reqs[r].responses[1].result.code = -408
            /\ ContainsTimedOut(reqs[r].responses[1].result.message)
            /\ reqs[r].child = "killed"

\* C21: a frame whose length prefix is 1,048,576 is not rejected for its length,
\* and a frame whose length prefix is larger than 1,048,576 is rejected with an
\* error and its body is never read.
C21_FrameLimitOneMiB ==
    /\ (net_len = 1048576 /\ net_pc = "idle") => net_result # "TooLarge"
    /\ net_len > 1048576 =>
          /\ net_pc = "idle"
          /\ net_result = "TooLarge"
          /\ ~net_body_read

\* C22: every control packet of a kind named in the order Discovery, ServerHello,
\* ClientHello, Ping, Pong, RpcRequest, RpcResponse, Event, StartRecording,
\* StopRecording, StartPlayback, StopPlayback is encoded with its position in
\* that order as the tag: StartRecording with 8, StopPlayback with 11.
C22_TagOrder ==
    LET order == <<"Discovery", "ServerHello", "ClientHello", "Ping", "Pong",
                   "RpcRequest", "RpcResponse", "Event", "StartRecording",
                   "StopRecording", "StartPlayback", "StopPlayback">>
    IN \A i \in 1..Len(net_sent) : \A k \in 1..Len(order) :
           net_sent[i] = order[k] => net_wire[i].body.tag = <<k - 1>>

\* C24: the client starts discovery again only after it has waited the 1-second
\* backoff: every discover() but the first follows the backoff sleep, after a
\* failed discovery as well as after the loss of an established session.
C24_BackoffBeforeRediscovery ==
    app_pc = "discover" => app_after \in {"start", "backoff"}

\* C23: the client stores a session and starts its heartbeat and its message
\* loop only if the reply to ClientHello is a ServerHello with the client's
\* version and the expected client-auth; after any other reply the handshake
\* fails and no session is stored.
C23_SessionOnlyAfterValidHello ==
    LET valid == /\ cr_reply.type = "ServerHello"
                 /\ cr_reply.version = CLIENT_VERSION
                 /\ cr_reply.auth = CLIENT_AUTH
    IN /\ (cr_session \/ cr_heartbeat \/ cr_msg_loop) => valid
       /\ (cr_reply # NoReply /\ ~valid /\ cr_pc \in {"returned", "sleep"}) =>
              ~cr_session /\ ~cr_heartbeat /\ ~cr_msg_loop

\* a later round whose handshake was refused for its auth string alone
C23_Witness ==
    /\ cr_pc = "returned"
    /\ cr_reply.type = "ServerHello"
    /\ cr_reply.version = CLIENT_VERSION
    /\ cr_reply.auth # CLIENT_AUTH
    /\ ~cr_session
    /\ cr_rounds > 1

\* C25: the playback pipeline decodes and writes packets in increasing sequence
\* order, whatever the order in which they arrived.
C25_PlayedInSeqOrder ==
    \A i, j \in 1..Len(pb_played) : i < j => pb_played[i] < pb_played[j]

\* C30: the n-th packet sent by the record pipeline (n = 0, 1, ...) carries
\* seq = n, and each packet's timestamp is one frame duration after that of the
\* packet before it, so seqs and timestamps strictly increase in send order.
C30_SeqAndTimestampAdvance ==
    \A i \in 1..Len(rs_sent) :
        /\ rs_sent[i].seq = i - 1
        /\ i > 1 => rs_sent[i].timestamp = rs_sent[i - 1].timestamp + FrameDurationUs

\* C26: once the packets with sequence numbers 0..n-1 have each been pushed
\* exactly once, in whatever order and within the tolerable delay, stats.lost
\* is 0.
C26_NoLossWhenAllArrive ==
    (seq_log # <<>> /\ {seq_log[i] : i \in 1..Len(seq_log)} = 0..(Len(seq_log) - 1)
        /\ pushes = Len(seq_log))
    => stats.lost = 0

\* C27: when the packets were pushed in increasing sequence order, within the
\* tolerable delay, stats.lost is the number of sequence numbers skipped between
\* the first and the last packet and stats.received is the number of pushes.
C27_LostCountsGaps ==
    (seq_log # <<>> /\ \A i \in 2..Len(seq_log) : seq_log[i - 1] < seq_log[i])
    => /\ stats.lost = (seq_log[Len(seq_log)] - seq_log[1] + 1) - Len(seq_log)
       /\ stats.received = Len(seq_log)

\* the example of the text: seqs 0, 1, 3, 4, 5 give lost = 1 and received = 5
C27_Witness ==
    /\ seq_log = <<0, 1, 3, 4, 5>>
    /\ stats.lost = 1
    /\ stats.received = 5

\* C28: a push whose packet is no duplicate and is not older than the last
\* played packet inserts the packet exactly when arrival_time - timestamp is at
\* most max_tolerable_delay; otherwise it drops it and counts it in stats.late.
C28_AcceptedIffWithinDelay ==
    (last_push.called /\ last_push.duplicate = 0 /\ last_push.ts >= last_push.lpt)
    => /\ last_push.inserted <=>
             last_push.arrival_time - last_push.ts <= MAX_TOLERABLE_DELAY
       /\ last_push.late = (IF last_push.inserted THEN 0 ELSE 1)

\* a packet dropped one microsecond past the tolerable delay, after one that
\* arrived exactly at the tolerable delay was accepted
C28_Witness ==
    /\ last_push.called /\ last_push.duplicate = 0 /\ last_push.ts >= last_push.lpt
    /\ last_push.arrival_time = last_push.ts + MAX_TOLERABLE_DELAY + 1
    /\ ~last_push.inserted /\ last_push.late = 1
    /\ stats.received > 0 /\ stats.min_delay = 0 /\ stats.max_delay = 0

\* C29: push never inserts a packet whose timestamp is smaller than that of the
\* last packet returned by pop or pop_next: the buffer holds no such packet, a
\* push of one is counted in stats.late and leaves the buffer as it is, and no
\* later pop returns a timestamp below one returned before.
C29_OldPacketsDiscarded ==
    /\ \A t \in DOMAIN buffer : t >= last_played_timestamp
    /\ (last_push.called /\ last_push.ts < last_push.lpt)
          => last_push.late = 1 /\ ~last_push.inserted
    /\ \A i \in 2..Len(popped) : popped[i] >= popped[i - 1]

\* an old packet was refused while the buffer held packets, and pop went on
C29_Witness ==
    /\ last_push.called /\ last_push.ts < last_push.lpt
    /\ last_push.late = 1 /\ ~last_push.inserted
    /\ Len(popped) >= 2

\* C35: after any sequence of pushes the adaptive target depth lies within
\* [min_buffer_size, max_buffer_size], 2 to 20 with the default configuration.
C35_TargetWithinRange ==
    target_buffer_size >= 2 /\ target_buffer_size <= 20

\* adaptation ran at least eight times and the target stands at the upper limit
C35_Witness ==
    /\ target_buffer_size = 20
    /\ pushes >= 8 * ADAPT_INTERVAL
    /\ Len(delay_samples) = DELAY_WINDOW

\* C40: with push, pop and pop_next only, stats.received is stats.played plus
\* the number of buffered packets, stats.buffer_size is the number of buffered
\* packets, and the number of push calls is received + late + duplicate.
C40_StatsAccounting ==
    /\ stats.received = stats.played + Cardinality(DOMAIN buffer)
    /\ stats.buffer_size = Cardinality(DOMAIN buffer)
    /\ pushes = stats.received + stats.late + stats.duplicate

\* a run with a duplicate, a late packet and a played packet
C40_Witness ==
    /\ stats.duplicate > 0
    /\ stats.late > 0
    /\ stats.played > 0

\* C38: every packet accepted into the buffer is eventually returned by pop once
\* the current time has passed its timestamp, also when no more packets arrive:
\* a buffered timestamp eventually leaves the buffer.
C38_BufferDrains ==
    \A t \in Timestamps : (t \in DOMAIN buffer) ~> (t \notin DOMAIN buffer)

\* C37: a registered session stays reachable by its audio address and subscribed
\* to the audio bus: once every other session that advertised the same audio
\* address is gone, the UDP mapping and the bus subscription of the session
\* that is still registered are in place.
C37_RegisteredStaysReachable ==
    \A c \in Conns :
        (/\ conns[c].pc = "session_loop"
         /\ \A d \in Conns \ {c} :
               conns[d].audio_addr = conns[c].audio_addr => conns[d].pc = "closed")
        => /\ udp_to_tcp[conns[c].audio_addr] = c
           /\ conns[c].audio_addr \in subscribers

\* C34: whenever no register or unregister call is under way, the subscribers
\* map and the addr_to_id map have the same key set, the address of the
\* register call that returned last is registered, and the address of the
\* unregister call that returned last is not.
C34_RegistryKeyed ==
    (\A t \in RegTasks : ab_calls[t].pc = "idle")
    => /\ \A a \in RegAddrs : (ab_subscribers[a] # 0) <=> (ab_addr_to_id[a] # 0)
       /\ ab_last.op = "register" => ab_subscribers[ab_last.addr] # 0
       /\ ab_last.op = "unregister" => ab_subscribers[ab_last.addr] = 0

\* C32: a subscriber that lagged is not terminated: the event loop ends only
\* when the channel is closed and nothing is left in it, and after a Lagged
\* signal the subscription goes on to the events that are still available,
\* so the newest event published is eventually handled or the bus is dropped.
C32_LaggedSubscriberGoesOn ==
    /\ [](ev_pc = "ended" => (ev_closed /\ ev_next = ev_tail))
    /\ [](\A i \in 2..Len(ev_handled) : ev_handled[i] > ev_handled[i - 1])
    /\ (ev_lagged > 0) ~> (ev_pc = "ended" \/ (ev_handled # <<>> /\ ev_next = ev_tail))

\* the subscriber lagged, went on, and handled the newest event while the bus
\* was still there
C32_Witness ==
    /\ ev_lagged > 0
    /\ ~ev_closed
    /\ ev_pc = "recv"
    /\ ev_handled # <<>>
    /\ ev_handled[Len(ev_handled)] = ev_tail

\* C31: the playback side never blocks its network receive loop on a full PCM
\* channel: whenever the receive task has a packet to hand over, it is able
\* to go on at once.
C31_ReceiveLoopNeverWaits == po_rx = "send" => ENABLED PlaybackSend

C39_OneWriterAtATime ==
    Cardinality({r \in RecIds : wr_tasks[r].pc = "loop"}) <= 1

\* C36: when the connection is lost while an execute call waits for its
\* response, cleanup still goes through and the client gets back to
\* discovering the server, and the call that was waiting returns.
C36_CleanupNotBlockedByCall ==
    /\ (ex_run = "cleanup") ~> (ex_run = "discover")
    /\ \A c \in ExecCallers :
          (ex_conn = "lost" /\ ex_calls[c].pc = "waiting") ~> (ex_calls[c].pc = "returned")

====
